---- MODULE Spec2Model ----
(***************************************************************************)
(* Model of the drawbridge schema-migration engine (package migrations)   *)
(* running against the postgres/std backend.                              *)
(*                                                                         *)
(* A migration file name is a sequence of characters, e.g.                *)
(* <<"2", "-", "m", ".sql">>; the extension is kept as one token.  A file *)
(* body is a sequence of lines; a line is a record [op, obj]: a directive *)
(* line ("Up"/"Down"), a blank line, or one SQL statement.  The SQL text  *)
(* ReadSQL returns is a sequence of tokens: the retained statements, each *)
(* followed by the newline token NL.                                      *)
(*                                                                         *)
(* The database is the committed tracking table (a function from the      *)
(* recorded identifiers to their rollback column) and the committed       *)
(* schema (the set of objects the applied up bodies created).  A          *)
(* transaction is a delta over the committed state (READ COMMITTED: every *)
(* statement sees what is committed plus the transaction's own writes).   *)
(***************************************************************************)
EXTENDS Integers, Sequences, FiniteSets, TLC

\* Highest revision of the migration files of the model.
MaxRev == 3

\* migrations.Latest
Latest == -1

Procs == {1, 2}

Up == "up"
Down == "down"
None == "none"

\* A NULL rollback column, and the mark of a row a transaction deleted.
NULL == <<[op |-> "NULL", obj |-> 0]>>
DELETED == <<[op |-> "DELETED", obj |-> 0]>>

\* No file name (the empty string).
NoName == <<>>

NL == [op |-> "nl", obj |-> 0]
BlankLine == [op |-> "blank", obj |-> 0]

Digits == <<"0", "1", "2", "3", "4", "5", "6", "7", "8", "9">>

Directory == <<"s", "q", "l">>

PathSeparator == "/"

-----------------------------------------------------------------------------
(* Filename / revision codec *)

IsDigit(c) == \E i \in 1..10 : Digits[i] = c

DigitVal(c) == (CHOOSE i \in 1..10 : Digits[i] = c) - 1

\* strconv.Atoi restricted to unsigned decimal strings.
RECURSIVE AtoiFrom(_, _)
AtoiFrom(s, acc) ==
    IF s = <<>> THEN acc
    ELSE AtoiFrom(Tail(s), acc * 10 + DigitVal(Head(s)))

Atoi(s) ==
    IF s = <<>> \/ \E i \in 1..Len(s) : ~IsDigit(s[i])
    THEN [v |-> 0, ok |-> FALSE]
    ELSE [v |-> AtoiFrom(s, 0), ok |-> TRUE]

\* Index of the first occurrence of c in s, 0 when absent.
IndexOf(s, c) ==
    IF \E i \in 1..Len(s) : s[i] = c
    THEN CHOOSE i \in 1..Len(s) : s[i] = c /\ \A j \in 1..(i - 1) : s[j] # c
    ELSE 0

\* Index of the last occurrence of c in s, 0 when absent.
LastIndexOf(s, c) ==
    IF \E i \in 1..Len(s) : s[i] = c
    THEN CHOOSE i \in 1..Len(s) : s[i] = c /\ \A j \in (i + 1)..Len(s) : s[j] # c
    ELSE 0

Filename(path) == SubSeq(path, LastIndexOf(path, PathSeparator) + 1, Len(path))

Revision(filename) ==
    LET name == Filename(filename)
        dash == IndexOf(name, "-")
    IN  IF dash = 0
        THEN [v |-> 0, ok |-> FALSE]
        ELSE Atoi(SubSeq(name, 1, dash - 1))

HasSqlSuffix(name) == name # <<>> /\ name[Len(name)] = ".sql"

\* fmt.Sprintf("%s%c%s", options.Directory, os.PathSeparator, migration)
PathOf(migration) == Directory \o <<PathSeparator>> \o migration

\* The name of the migration file with revision n.
NameOf(n) == <<Digits[n + 1], "-", "m", ".sql">>

Names == {NameOf(n) : n \in 1..MaxRev}

Rev(name) == Revision(name).v

-----------------------------------------------------------------------------
(* Ordering of migration names (sort.go is not part of the sources; the    *)
(* order is the one the specification gives: by parsed revision, a name    *)
(* that does not parse counting as revision 0).                            *)

SortKey(name) == IF Revision(name).ok THEN Revision(name).v ELSE 0

RECURSIVE SortUp(_)
SortUp(S) ==
    IF S = {} THEN <<>>
    ELSE LET x == CHOOSE x \in S : \A y \in S : SortKey(x) <= SortKey(y)
         IN  <<x>> \o SortUp(S \ {x})

RECURSIVE SortDown(_)
SortDown(S) ==
    IF S = {} THEN <<>>
    ELSE LET x == CHOOSE x \in S : \A y \in S : SortKey(x) >= SortKey(y)
         IN  <<x>> \o SortDown(S \ {x})

\* Every order in which the storage engine may return the rows S.
Orders(S) ==
    {s \in [1..Cardinality(S) -> S] : \A i, j \in 1..Cardinality(S) : s[i] = s[j] => i = j}

-----------------------------------------------------------------------------
(* Pure helpers of migrate.go *)

\* Regression variant of Available: the files come back in descending order
\* whatever the direction.
AvailableDescending(dir, direction) == SortDown({name \in dir : HasSqlSuffix(name)})

\* The .sql files of the directory, in the order of the direction.
Available(dir, direction) ==
    LET filenames == {name \in dir : HasSqlSuffix(name)}
    IN  IF direction = Down THEN SortDown(filenames) ELSE SortUp(filenames)

RECURSIVE FirstValid(_)
FirstValid(names) ==
    IF names = <<>> THEN 0
    ELSE IF Revision(Head(names)).ok THEN Revision(Head(names)).v
    ELSE FirstValid(Tail(names))

\* Regression variant of LatestRevision: the first file of the ascending
\* listing is taken for the latest.
LatestRevisionAscending(dir) == FirstValid(Available(dir, Up))

LatestRevision(dir) == FirstValid(Available(dir, Down))

\* Regression variants of IsUp and IsDown with the bound compared the wrong
\* way; the target-bound properties must reject them.
IsUpReversed(version, desired) == desired = Latest \/ version >= desired

IsDownInclusive(version, desired) == version >= desired

IsUp(version, desired) == desired = Latest \/ version <= desired

IsDown(version, desired) == version > desired

\* Regression variant of LatestOf: the row the query returned last is taken
\* for the latest, as if the rows came back in ascending order.
RECURSIVE LatestOfLastRow(_, _)
LatestOfLastRow(rows, latest) ==
    IF rows = <<>> THEN latest
    ELSE LatestOfLastRow(Tail(rows), Head(rows))

\* The loop of LatestMigration over the rows in the order the query returns them.
RECURSIVE LatestOf(_, _)
LatestOf(rows, latest) ==
    IF rows = <<>> THEN latest
    ELSE LatestOf(Tail(rows),
                  IF Revision(Head(rows)).v > Revision(latest).v THEN Head(rows) ELSE latest)

LatestMigration(rows) == LatestOf(rows, <<>>)

\* Regression variant of RollbackVersion: the target is not clamped at 0.
RollbackVersionUnclamped(revision, steps) == revision - steps

\* Options.Rollback: the target revision, `steps` below the latest applied.
RollbackVersion(revision, steps) ==
    LET version == revision - steps
    IN  IF version < 0 THEN 0 ELSE version

\* Regression variant of Moving: a database ahead of the target is not
\* recognised as a downgrade.
MovingNeverDown(rows, version) ==
    IF version = Latest THEN Up
    ELSE LET latest == LatestMigration(rows)
         IN  IF latest = <<>> THEN Up
             ELSE IF ~Revision(latest).ok THEN None
             ELSE IF Revision(latest).v < version THEN Up
             ELSE None

\* Moving, given the rows the metadata query returned.
Moving(rows, version) ==
    IF version = Latest THEN Up
    ELSE LET latest == LatestMigration(rows)
         IN  IF latest = <<>> THEN Up
             ELSE IF ~Revision(latest).ok THEN None
             ELSE IF Revision(latest).v < version THEN Up
             ELSE IF Revision(latest).v > version THEN Down
             ELSE None

-----------------------------------------------------------------------------
(* Directive parser *)

\* bufio.MaxScanTokenSize: a line of this many bytes does not fit the buffer
\* of the bufio.Scanner ReadSQL reads the file with.
MaxScanTokenSize == 65536

\* Lines of text as they are written in a migration file, besides the plain
\* directives and the statements of the model's files; a line [op |-> "text",
\* obj |-> k] is the k-th of them. A character is one token, and so are the
\* words Up, Down and down. The last one is a statement written on one long
\* line.
LineText ==
    << <<"x", " ", "'", "-", "-", "-", " ", "!", "Down", "'", ";">>,
       <<" ", "-", "-", "-", " ", "!", "Up">>,
       <<"-", "-", " ", "!", "Down">>,
       <<"-", "-", "-", "\t", " ", "!", "Up", " ", "x">>,
       <<"-", "-", "-", " ", "!", "down">>,
       <<"-", "-", "-", "!", "Up">>,
       [i \in 1..MaxScanTokenSize |-> "x"] >>

\* s.Text(): the characters of a line.
Bytes(line) ==
    IF line.op = "text" THEN LineText[line.obj]
    ELSE IF line.op = "Up" THEN <<"-", "-", "-", " ", "!", "Up">>
    ELSE IF line.op = "Down" THEN <<"-", "-", "-", " ", "!", "Down">>
    ELSE IF line.op = "blank" THEN <<>>
    ELSE <<line.op, " ", Digits[line.obj + 1]>>

\* The pattern ---\s+!(Up|Down) matched in s from position k on: the
\* captured direction, the empty string when there is no match.
MatchAt(s, k) ==
    LET bang == IF \E i \in (k + 3)..Len(s) : s[i] \notin {" ", "\t"}
                THEN CHOOSE i \in (k + 3)..Len(s) :
                         /\ s[i] \notin {" ", "\t"}
                         /\ \A j \in (k + 3)..(i - 1) : s[j] \in {" ", "\t"}
                ELSE 0
    IN  IF /\ Len(s) >= k + 5
           /\ \A i \in k..(k + 2) : s[i] = "-"
           /\ bang > k + 3
           /\ bang < Len(s)
           /\ s[bang] = "!"
           /\ s[bang + 1] \in {"Up", "Down"}
        THEN s[bang + 1]
        ELSE ""

\* dirRe = ^---\s+!(Up|Down).*$ : the submatches of s, none when s does not match.
dirRe(s) == IF MatchAt(s, 1) # "" THEN <<s, MatchAt(s, 1)>> ELSE <<>>

\* dirRe.FindStringSubmatch: the whole match and the captured direction.
DirMatch(line) == dirRe(Bytes(line))

ToLower(s) == IF s = "Up" THEN Up ELSE IF s = "Down" THEN Down ELSE s

\* The scanner loop of ReadSQL; st is [doc, parsing, valid]. s.Scan() returns
\* false at the end of the text and at a line that does not fit the buffer
\* (s.Err() is not looked at).
RECURSIVE ScanLines(_, _, _)
ScanLines(lines, direction, st) ==
    IF lines = <<>> THEN st
    ELSE IF Len(Bytes(Head(lines))) >= MaxScanTokenSize THEN st
    ELSE LET line == Head(lines)
             found == DirMatch(line)
         IN  IF Len(found) > 1
             THEN ScanLines(Tail(lines), direction,
                            [st EXCEPT !.parsing = (ToLower(found[2]) = direction)])
             ELSE IF st.parsing
             THEN ScanLines(Tail(lines), direction,
                            [st EXCEPT !.valid = TRUE,
                                       !.doc = @ \o (IF line.op = "blank" THEN <<>> ELSE <<line>>)
                                                 \o <<NL>>])
             ELSE ScanLines(Tail(lines), direction, st)

\* ReadSQL on the text of a file that could be read.
ParseSQL(text, direction) ==
    LET st == ScanLines(text, direction, [doc |-> <<>>, parsing |-> FALSE, valid |-> FALSE])
    IN  IF ~st.valid
        THEN [sql |-> <<>>, err |-> "ErrUpDownBlocksNotFound"]
        ELSE [sql |-> st.doc, err |-> "nil"]

\* strings.TrimSpace on a SQL text: the leading and trailing newlines go.
RECURSIVE TrimLeft(_)
TrimLeft(doc) == IF doc # <<>> /\ Head(doc) = NL THEN TrimLeft(Tail(doc)) ELSE doc

RECURSIVE TrimRight(_)
TrimRight(doc) ==
    IF doc # <<>> /\ doc[Len(doc)] = NL THEN TrimRight(SubSeq(doc, 1, Len(doc) - 1)) ELSE doc

TrimSpace(doc) == TrimRight(TrimLeft(doc))

-----------------------------------------------------------------------------
(* The database's execution of a SQL text on a schema: the statements run  *)
(* in order; creating an existing object, dropping a missing one, or a     *)
(* malformed statement fails the batch.                                    *)

RECURSIVE RunSQL(_, _)
RunSQL(sql, objects) ==
    IF sql = <<>> THEN [ok |-> TRUE, schema |-> objects]
    ELSE LET stmt == Head(sql)
         IN  IF stmt.op = "nl" THEN RunSQL(Tail(sql), objects)
             ELSE IF stmt.op = "create" /\ stmt.obj \notin objects
             THEN RunSQL(Tail(sql), objects \cup {stmt.obj})
             ELSE IF stmt.op = "drop" /\ stmt.obj \in objects
             THEN RunSQL(Tail(sql), objects \ {stmt.obj})
             ELSE [ok |-> FALSE, schema |-> objects]

-----------------------------------------------------------------------------
(* State *)

VARIABLES
    files,       \* names of the files in the migrations directory
    bad,         \* the file whose up body ends in a failing statement, or NoName
    metaExists,  \* the metadata table exists
    table,       \* committed rows of the metadata table: migration -> rollback
    schema,      \* committed schema objects
    lockedBy,    \* process whose transaction holds the metadata table lock, or 0
    pc,          \* position of each process in Apply
    options,     \* Options of the running Apply: [Revision, EmbeddedRollbacks]
    m,           \* the Migration struct: [direction, revision, rollbacks]
    migrations,  \* the rest of the list Apply or ApplyRollbacks ranges over
    path,        \* path of the migration ReadAndApply is working on
    tx,          \* the open transaction: writes not yet committed
    result,      \* what Apply returned
    log,         \* history: what this run did with each candidate
    start,       \* history: database and directory when the run started
    rel,         \* history: how the run relates to the run before it
    call,        \* the function the caller invoked and its steps argument
    depth,       \* std.Tx: the stack of transaction levels
    inRollback,  \* std.Tx: a level was closed without a commit
    sqlTx,       \* std.Tx: the state of the underlying sql.Tx
    pending,     \* what was executed through the open sql.Tx
    persisted,   \* what the database holds
    ret,         \* what the last call on the std span returned
    hist,        \* history of the calls on the std span
    meta,        \* the running std CreateMetadata: its arguments and position
    dirErr,      \* the error the Reader returns for listing the directory
    unreadable,  \* the files the Reader fails to read
    input,       \* the function called on its own and its arguments
    output       \* what that function returned

stdVars == <<depth, inRollback, sqlTx, pending, persisted, ret, hist, meta>>

srcVars == <<dirErr, unreadable>>

pureVars == <<input, output>>

vars == <<files, bad, metaExists, table, schema, lockedBy, pc, options, m,
          migrations, path, tx, result, log, start, rel, call, stdVars, srcVars, pureVars>>

dbVars == <<metaExists, table, schema, lockedBy>>
envVars == <<files, bad>>
histVars == <<log, start, rel>>

Revisions == {Latest} \cup (0..MaxRev)

NoRows == [n \in {} |-> NULL]

NoTx == [open |-> FALSE, rows |-> NoRows, created |-> {}, dropped |-> {}]

NoMigration == [direction |-> None, revision |-> 0, rollbacks |-> FALSE]

NoOptions == [Revision |-> Latest, EmbeddedRollbacks |-> FALSE]

NoCall == [fn |-> "none", steps |-> 0]

NoArg == [fn |-> "none"]

\* The Reader lists the directory and reads every file without an error.
SourceOk == dirErr = "nil" /\ unreadable = {}

\* No function was called on its own.
PureIdle == input = NoArg /\ output = NoArg

Snapshot == [table |-> table, schema |-> schema, files |-> files, bad |-> bad]

\* The text of the migration file `name`: an up section creating the
\* migration's object and a down section dropping it.
FileText(name) ==
    <<[op |-> "Up", obj |-> 0], [op |-> "create", obj |-> Rev(name)]>>
    \o (IF name = bad THEN <<[op |-> "bad", obj |-> Rev(name)]>> ELSE <<>>)
    \o <<BlankLine, [op |-> "Down", obj |-> 0], [op |-> "drop", obj |-> Rev(name)], BlankLine>>

\* reader.Files: the names the Reader lists. A directory that does not exist
\* or cannot be listed yields no name, and the error dirErr.
Listing == IF dirErr = "nil" THEN files ELSE {}

\* ReadSQL: a file that cannot be read yields the empty text and no error.
ReadSQL(file, direction) ==
    IF Filename(file) \notin files \/ Filename(file) \in unreadable
    THEN [sql |-> <<>>, err |-> "nil"]
    ELSE ParseSQL(FileText(Filename(file)), direction)

\* What a statement of transaction t sees of the metadata table.
TableView(t) ==
    LET keep == {n \in DOMAIN table \cup DOMAIN t.rows :
                    IF n \in DOMAIN t.rows THEN t.rows[n] # DELETED ELSE TRUE}
    IN  [n \in keep |-> IF n \in DOMAIN t.rows THEN t.rows[n] ELSE table[n]]

\* What a statement of transaction t sees of the schema.
SchemaView(t) == (schema \ t.dropped) \cup t.created

\* The transaction after its statements brought the schema it sees to `objects`.
WithSchema(t, objects) ==
    [t EXCEPT !.created = objects \ schema, !.dropped = schema \ objects]

WriteRow(t, name, value) ==
    [t EXCEPT !.rows = [n \in DOMAIN t.rows \cup {name} |->
                           IF n = name THEN value ELSE t.rows[n]]]

\* insert into <metadata> (migration) values (name)
InsertRow(t, name) == WriteRow(t, name, NULL)

\* delete from <metadata> where migration = name
DeleteRow(t, name) ==
    IF name \in DOMAIN TableView(t) THEN WriteRow(t, name, DELETED) ELSE t

\* update <metadata> set rollback = value where migration = name
UpdateRow(t, name, value) ==
    IF name \in DOMAIN TableView(t) THEN WriteRow(t, name, value) ELSE t

\* The committed database after transaction t commits.
TxCommit(t) == [table |-> TableView(t), schema |-> SchemaView(t)]

\* Regression variant of TxClose: the deferred close commits what the
\* transaction wrote so far instead of rolling it back.
TxCloseCommitting(t) == [table |-> TableView(t), schema |-> SchemaView(t)]

\* The committed database after transaction t is closed without a commit.
TxClose(t) == [table |-> table, schema |-> schema]

\* select migration from <metadata> where migration = $1, scanned without
\* a destination: anything but ErrNoRows counts as applied.
IsMigrated(view, migration) == Filename(migration) \in DOMAIN view

ShouldRun(view, migration, direction, revision) ==
    LET version == Revision(migration)
    IN  IF ~version.ok THEN FALSE
        ELSE IF direction = Up
        THEN IsUp(version.v, revision) /\ ~IsMigrated(view, migration)
        ELSE IF direction = Down
        THEN IsDown(version.v, revision) /\ IsMigrated(view, migration)
        ELSE FALSE

\* A statement on the metadata table waits while another transaction holds
\* the table's ACCESS EXCLUSIVE lock.
CanQuery(p) == lockedBy \in {0, p}

Entry(migration, direction, act, src) ==
    [migration |-> Filename(migration), direction |-> direction, act |-> act,
     src |-> src, recorded |-> Filename(migration) \in DOMAIN table]

-----------------------------------------------------------------------------
(* Apply, step by step *)

\* How a run started now with these options relates to the run that just
\* returned (history only).
Relation(p, revision, rollbacks) ==
    IF pc[p] # "done" THEN [kind |-> "fresh", n |-> NoName]
    ELSE IF call[p].fn = "AtLatest" THEN [kind |-> "other", n |-> NoName]
    ELSE IF /\ result[p] = "nil"
            /\ options[p].Revision = revision
            /\ options[p].EmbeddedRollbacks = rollbacks
            /\ files = start[p].files
            /\ bad = start[p].bad
    THEN [kind |-> "repeat", n |-> NoName]
    ELSE IF /\ result[p] = "sqlfail"
            /\ m[p].direction = Up
            /\ options[p].Revision = revision
            /\ options[p].EmbeddedRollbacks = rollbacks
            /\ files = start[p].files
            /\ start[p].bad = Filename(path[p])
            /\ bad = NoName
    THEN [kind |-> "resume", n |-> Filename(path[p])]
    ELSE IF /\ result[p] = "nil"
            /\ options[p].Revision = Latest
            /\ start[p].table = NoRows
            /\ files = start[p].files
            /\ bad = start[p].bad
            /\ revision = 0
            /\ rollbacks
    THEN [kind |-> "roundtrip", n |-> NoName]
    ELSE IF /\ result[p] = "nil"
            /\ options[p].EmbeddedRollbacks
            /\ start[p].table = NoRows
            /\ files # start[p].files
            /\ files \subseteq start[p].files
            /\ bad = start[p].bad
            /\ revision # Latest
            /\ rollbacks
    THEN [kind |-> "unfiled", n |-> NoName]
    ELSE [kind |-> "other", n |-> NoName]

\* The caller invokes Apply with a target revision and the rollbacks option.
StartApply(p, revision, rollbacks) ==
    /\ pc[p] \in {"idle", "done"}
    /\ options' = [options EXCEPT ![p] = [Revision |-> revision, EmbeddedRollbacks |-> rollbacks]]
    /\ rel' = [rel EXCEPT ![p] = Relation(p, revision, rollbacks)]
    /\ start' = [start EXCEPT ![p] = Snapshot]
    /\ log' = [log EXCEPT ![p] = <<>>]
    /\ result' = [result EXCEPT ![p] = "running"]
    /\ m' = [m EXCEPT ![p] = NoMigration]
    /\ migrations' = [migrations EXCEPT ![p] = <<>>]
    /\ path' = [path EXCEPT ![p] = NoName]
    /\ pc' = [pc EXCEPT ![p] = "CreateMetadata"]
    /\ call' = [call EXCEPT ![p] = [fn |-> "Apply", steps |-> 0]]
    /\ UNCHANGED <<dbVars, envVars, tx, stdVars, srcVars, pureVars>>

\* Apply returns err before or after the loop (no transaction is open).
ReturnFrom(p, err) ==
    /\ pc' = [pc EXCEPT ![p] = "done"]
    /\ result' = [result EXCEPT ![p] = err]

\* ReadAndApply returns err: the deferred TxClose ends transaction t, which
\* gives up the lock, and Apply returns the error.
Abort(p, t, err) ==
    /\ table' = TxClose(t).table
    /\ schema' = TxClose(t).schema
    /\ lockedBy' = IF lockedBy = p THEN 0 ELSE lockedBy
    /\ tx' = [tx EXCEPT ![p] = NoTx]
    /\ ReturnFrom(p, err)

\* Where the caller of CreateMetadata goes on: Apply resolves the direction,
\* Options.Rollback and Options.AtLatest read the latest applied migration.
AfterCreateMetadata(p) ==
    IF call[p].fn = "Rollback" THEN "LatestMigration"
    ELSE IF call[p].fn = "AtLatest" THEN "AtLatest"
    ELSE "Moving"

\* CreateMetadata: is the metadata table missing?
MissingMetadataTable(p) ==
    /\ pc[p] = "CreateMetadata"
    /\ pc' = [pc EXCEPT ![p] = IF metaExists THEN AfterCreateMetadata(p) ELSE "CreateTable"]
    /\ UNCHANGED <<dbVars, envVars, histVars, options, m, migrations, path, tx, result>>
    /\ UNCHANGED <<call, stdVars, srcVars, pureVars>>

\* CreateMetadata: create table (no "if not exists").
CreateMetadata(p) ==
    /\ pc[p] = "CreateTable"
    /\ IF metaExists
       THEN /\ ReturnFrom(p, "createfail")
            /\ UNCHANGED metaExists
       ELSE /\ metaExists' = TRUE
            /\ pc' = [pc EXCEPT ![p] = AfterCreateMetadata(p)]
            /\ UNCHANGED result
    /\ UNCHANGED <<table, schema, lockedBy, envVars, histVars, options, m, migrations, path, tx>>
    /\ UNCHANGED <<call, stdVars, srcVars, pureVars>>

\* Apply: resolve the direction, list the candidates, build the Migration.
ApplyDirection(p) ==
    /\ pc[p] = "Moving"
    /\ IF options[p].Revision = Latest THEN TRUE ELSE CanQuery(p)
    /\ \E rows \in Orders(DOMAIN table) :
          LET direction == Moving(rows, options[p].Revision)
          IN  IF dirErr \notin {"nil", "ErrNotExist"}
              THEN /\ ReturnFrom(p, "direrror")
                   /\ UNCHANGED <<m, migrations>>
              ELSE /\ m' = [m EXCEPT ![p] = [direction |-> direction,
                                             revision |-> options[p].Revision,
                                             rollbacks |-> options[p].EmbeddedRollbacks]]
                   /\ migrations' = [migrations EXCEPT ![p] = Available(Listing, direction)]
                   /\ pc' = [pc EXCEPT ![p] = "Apply"]
                   /\ UNCHANGED result
    /\ UNCHANGED <<dbVars, envVars, histVars, options, path, tx>>
    /\ UNCHANGED <<call, stdVars, srcVars, pureVars>>

\* The errors ReadAndApply returns inside
\* fmt.Errorf("migration %s (%s) failed: %w", path, m.direction, err):
\* the error of tx.Exec of the section, and no other.
Wrapped == {"sqlfail"}

\* ReadAndApply: begin the transaction of the next candidate.
Begin(p) ==
    /\ pc[p] = "Apply"
    /\ migrations[p] # <<>>
    /\ path' = [path EXCEPT ![p] = PathOf(Head(migrations[p]))]
    /\ tx' = [tx EXCEPT ![p] = [NoTx EXCEPT !.open = TRUE]]
    /\ pc' = [pc EXCEPT ![p] = "LockMetadata"]
    /\ UNCHANGED <<dbVars, envVars, histVars, options, m, migrations, result>>
    /\ UNCHANGED <<call, stdVars, srcVars, pureVars>>

\* lock table <metadata> in access exclusive mode
LockMetadata(p) ==
    /\ pc[p] = "LockMetadata"
    /\ lockedBy = 0
    /\ lockedBy' = p
    /\ pc' = [pc EXCEPT ![p] = "ShouldRun"]
    /\ UNCHANGED <<metaExists, table, schema, envVars, histVars, options, m, migrations, path, tx, result>>
    /\ UNCHANGED <<call, stdVars, srcVars, pureVars>>

\* ReadAndApply: the applied-check under the lock.
CheckShouldRun(p) ==
    /\ pc[p] = "ShouldRun"
    /\ CanQuery(p)
    /\ IF ShouldRun(TableView(tx[p]), path[p], m[p].direction, m[p].revision)
       THEN /\ pc' = [pc EXCEPT ![p] = "Exec"]
            /\ UNCHANGED log
       ELSE /\ pc' = [pc EXCEPT ![p] = "Commit"]
            /\ log' = [log EXCEPT ![p] = Append(@, Entry(path[p], m[p].direction, "skip", "file"))]
    /\ UNCHANGED <<dbVars, envVars, start, rel, options, m, migrations, path, tx, result>>
    /\ UNCHANGED <<call, stdVars, srcVars, pureVars>>

\* ReadAndApply: ReadSQL, then tx.Exec of the section.
Exec(p) ==
    /\ pc[p] = "Exec"
    /\ LET doc == ReadSQL(path[p], m[p].direction)
           run == RunSQL(doc.sql, SchemaView(tx[p]))
       IN  IF doc.err # "nil"
           THEN /\ Abort(p, tx[p], doc.err)
                /\ UNCHANGED log
           ELSE IF ~run.ok
           THEN /\ Abort(p, WithSchema(tx[p], run.schema), "sqlfail")
                /\ log' = [log EXCEPT ![p] = Append(@, Entry(path[p], m[p].direction, "fail", "file"))]
           ELSE /\ tx' = [tx EXCEPT ![p] = WithSchema(@, run.schema)]
                /\ log' = [log EXCEPT ![p] = Append(@, Entry(path[p], m[p].direction, "exec", "file"))]
                /\ pc' = [pc EXCEPT ![p] = "Migrated"]
                /\ UNCHANGED <<table, schema, lockedBy, result>>
    /\ UNCHANGED <<metaExists, envVars, start, rel, options, m, migrations, path>>
    /\ UNCHANGED <<call, stdVars, srcVars, pureVars>>

\* Regression variant of Migrated (the legacy engine's): the row is written
\* through the connection, outside the migration's transaction.
MigratedOutsideTx(p) ==
    /\ pc[p] = "Migrated"
    /\ LET filename == Filename(path[p])
       IN  IF m[p].direction = Down
           THEN /\ table' = [n \in DOMAIN table \ {filename} |-> table[n]]
                /\ pc' = [pc EXCEPT ![p] = "Commit"]
           ELSE /\ table' = [n \in DOMAIN table \cup {filename} |->
                                IF n = filename THEN NULL ELSE table[n]]
                /\ pc' = [pc EXCEPT ![p] = IF m[p].rollbacks THEN "UpdateRollback" ELSE "Commit"]
    /\ UNCHANGED <<schema, lockedBy, tx, result>>
    /\ UNCHANGED <<metaExists, envVars, histVars, options, m, migrations, path>>
    /\ UNCHANGED <<call, stdVars, srcVars, pureVars>>

\* Migrated: delete the row (down) or insert it (up).
Migrated(p) ==
    /\ pc[p] = "Migrated"
    /\ LET filename == Filename(path[p])
       IN  IF m[p].direction = Down
           THEN /\ tx' = [tx EXCEPT ![p] = DeleteRow(@, filename)]
                /\ pc' = [pc EXCEPT ![p] = "Commit"]
                /\ UNCHANGED <<table, schema, lockedBy, result>>
           ELSE IF filename \in DOMAIN TableView(tx[p])
           THEN Abort(p, tx[p], "unique")
           ELSE /\ tx' = [tx EXCEPT ![p] = InsertRow(@, filename)]
                /\ pc' = [pc EXCEPT ![p] = IF m[p].rollbacks THEN "UpdateRollback" ELSE "Commit"]
                /\ UNCHANGED <<table, schema, lockedBy, result>>
    /\ UNCHANGED <<metaExists, envVars, histVars, options, m, migrations, path>>
    /\ UNCHANGED <<call, stdVars, srcVars, pureVars>>

\* UpdateRollback, called by Migrated after the insert.
UpdateRollback(p) ==
    /\ pc[p] = "UpdateRollback"
    /\ LET filename == Filename(path[p])
           exists == filename \in DOMAIN TableView(tx[p])
           downSQL == ReadSQL(path[p], Down)
       IN  IF exists
           THEN /\ pc' = [pc EXCEPT ![p] = "Commit"]
                /\ UNCHANGED <<table, schema, lockedBy, tx, result>>
           ELSE IF downSQL.err # "nil"
           THEN Abort(p, tx[p], downSQL.err)
           ELSE /\ tx' = [tx EXCEPT ![p] = UpdateRow(@, filename, TrimSpace(downSQL.sql))]
                /\ pc' = [pc EXCEPT ![p] = "Commit"]
                /\ UNCHANGED <<table, schema, lockedBy, result>>
    /\ UNCHANGED <<metaExists, envVars, histVars, options, m, migrations, path>>
    /\ UNCHANGED <<call, stdVars, srcVars, pureVars>>

\* Regression variant of Commit: the lock on the metadata table outlives the
\* transaction, as a session-level lock would.
CommitKeepingLock(p) ==
    /\ pc[p] = "Commit"
    /\ table' = TxCommit(tx[p]).table
    /\ schema' = TxCommit(tx[p]).schema
    /\ tx' = [tx EXCEPT ![p] = NoTx]
    /\ migrations' = [migrations EXCEPT ![p] = Tail(@)]
    /\ pc' = [pc EXCEPT ![p] = "Apply"]
    /\ UNCHANGED <<metaExists, lockedBy, envVars, histVars, options, m, path, result>>
    /\ UNCHANGED <<call, stdVars, srcVars, pureVars>>

\* return tx.Commit(): the writes become visible, the lock is released, and
\* the loop of Apply goes on with the next candidate.
Commit(p) ==
    /\ pc[p] = "Commit"
    /\ table' = TxCommit(tx[p]).table
    /\ schema' = TxCommit(tx[p]).schema
    /\ lockedBy' = IF lockedBy = p THEN 0 ELSE lockedBy
    /\ tx' = [tx EXCEPT ![p] = NoTx]
    /\ migrations' = [migrations EXCEPT ![p] = Tail(@)]
    /\ pc' = [pc EXCEPT ![p] = "Apply"]
    /\ UNCHANGED <<metaExists, envVars, histVars, options, m, path, result>>
    /\ UNCHANGED <<call, stdVars, srcVars, pureVars>>

\* Apply after the loop: done, or on to the embedded rollbacks.
ApplyDone(p) ==
    /\ pc[p] = "Apply"
    /\ migrations[p] = <<>>
    /\ IF ~options[p].EmbeddedRollbacks
       THEN ReturnFrom(p, "nil")
       ELSE /\ pc' = [pc EXCEPT ![p] = "HandleEmbeddedRollbacks"]
            /\ UNCHANGED result
    /\ UNCHANGED <<dbVars, envVars, histVars, options, m, migrations, path, tx>>
    /\ UNCHANGED <<call, stdVars, srcVars, pureVars>>

-----------------------------------------------------------------------------
(* Embedded rollbacks (rollback.go) *)

\* select migration from <metadata>
Applied == DOMAIN table

\* HandleEmbeddedRollbacks up to the loop of ApplyRollbacks: resolve the
\* revision, read the applied migrations, sort them descending.
HandleEmbeddedRollbacks(p) ==
    /\ pc[p] = "HandleEmbeddedRollbacks"
    /\ CanQuery(p)
    /\ m' = [m EXCEPT ![p].revision = IF @ = Latest THEN LatestRevision(Listing) ELSE @]
    /\ migrations' = [migrations EXCEPT ![p] = SortDown(Applied)]
    /\ pc' = [pc EXCEPT ![p] = "Rollback"]
    /\ UNCHANGED <<dbVars, envVars, histVars, options, path, tx, result>>
    /\ UNCHANGED <<call, stdVars, srcVars, pureVars>>

\* Migration.Rollback of the next applied migration, in its own transaction.
Rollback(p) ==
    /\ pc[p] = "Rollback"
    /\ migrations[p] # <<>>
    /\ LET migration == Head(migrations[p])
           migrationRevision == Revision(migration)
           t == [NoTx EXCEPT !.open = TRUE]
       IN  /\ IF migrationRevision.ok
              THEN IF migrationRevision.v > m[p].revision THEN CanQuery(p) ELSE TRUE
              ELSE TRUE
           /\ IF ~migrationRevision.ok
              THEN /\ ReturnFrom(p, "badname")
                   /\ UNCHANGED <<table, schema, log, migrations>>
              ELSE IF migrationRevision.v <= m[p].revision
              THEN /\ ReturnFrom(p, "nil")
                   /\ UNCHANGED <<table, schema, log, migrations>>
              ELSE IF migration \notin DOMAIN TableView(t)
              THEN /\ migrations' = [migrations EXCEPT ![p] = Tail(@)]
                   /\ UNCHANGED <<table, schema, log, pc, result>>
              ELSE IF TableView(t)[migration] = NULL
              THEN /\ ReturnFrom(p, "scanfail")
                   /\ UNCHANGED <<table, schema, log, migrations>>
              ELSE LET downSQL == TableView(t)[migration]
                       run == RunSQL(downSQL, SchemaView(t))
                   IN  IF ~run.ok
                       THEN /\ ReturnFrom(p, "sqlfail")
                            /\ table' = TxClose(WithSchema(t, run.schema)).table
                            /\ schema' = TxClose(WithSchema(t, run.schema)).schema
                            /\ log' = [log EXCEPT ![p] = Append(@, Entry(migration, Down, "fail", "stored"))]
                            /\ UNCHANGED migrations
                       ELSE /\ table' = TxCommit(DeleteRow(WithSchema(t, run.schema), migration)).table
                            /\ schema' = TxCommit(DeleteRow(WithSchema(t, run.schema), migration)).schema
                            /\ log' = [log EXCEPT ![p] = Append(@, Entry(migration, Down, "exec", "stored"))]
                            /\ migrations' = [migrations EXCEPT ![p] = Tail(@)]
                            /\ UNCHANGED <<pc, result>>
    /\ UNCHANGED <<metaExists, lockedBy, envVars, start, rel, options, m, path, tx>>
    /\ UNCHANGED <<call, stdVars, srcVars, pureVars>>

\* ApplyRollbacks ran out of applied migrations.
ApplyRollbacks(p) ==
    /\ pc[p] = "Rollback"
    /\ migrations[p] = <<>>
    /\ ReturnFrom(p, "nil")
    /\ UNCHANGED <<dbVars, envVars, histVars, options, m, migrations, path, tx>>
    /\ UNCHANGED <<call, stdVars, srcVars, pureVars>>

-----------------------------------------------------------------------------
(* Failures of the database while a migration's transaction is open *)

\* The insert or delete of Migrated fails.
MigratedFails(p) ==
    /\ pc[p] = "Migrated"
    /\ Abort(p, tx[p], "metafail")
    /\ UNCHANGED <<metaExists, envVars, histVars, options, m, migrations, path>>
    /\ UNCHANGED <<call, stdVars, srcVars, pureVars>>

\* The query of UpdateRollback fails.
UpdateRollbackFails(p) ==
    /\ pc[p] = "UpdateRollback"
    /\ Abort(p, tx[p], "storefail")
    /\ UNCHANGED <<metaExists, envVars, histVars, options, m, migrations, path>>
    /\ UNCHANGED <<call, stdVars, srcVars, pureVars>>

\* tx.Commit fails: nothing of the transaction is committed.
CommitFails(p) ==
    /\ pc[p] = "Commit"
    /\ Abort(p, tx[p], "commitfail")
    /\ UNCHANGED <<metaExists, envVars, histVars, options, m, migrations, path>>
    /\ UNCHANGED <<call, stdVars, srcVars, pureVars>>

\* The existence query of CreateMetadata fails: missingMetadataTable panics.
MissingMetadataTableFails(p) ==
    /\ pc[p] = "CreateMetadata"
    /\ ReturnFrom(p, "panic")
    /\ UNCHANGED <<dbVars, envVars, histVars, options, m, migrations, path, tx, call, stdVars, srcVars, pureVars>>

\* The lock statement fails: ReadAndApply returns the error.
LockMetadataFails(p) ==
    /\ pc[p] = "LockMetadata"
    /\ Abort(p, tx[p], "lockfail")
    /\ UNCHANGED <<metaExists, envVars, histVars, options, m, migrations, path, call, stdVars, srcVars, pureVars>>

\* What the deferred TxClose can come to when the context of the transaction
\* is cancelled at this position. The sql package rolls the transaction back
\* on its own when the context is cancelled; the Rollback of Close then either
\* still gets there first (nil) or finds the transaction done (ErrTxDone), on
\* which TxClose panics. At the commit the level is already marked committed,
\* so Close does not roll back and the error of Commit is returned.
CancelOutcomes(position) ==
    IF position = "Commit" THEN {"cancelled"} ELSE {"cancelled", "panic"}

\* The caller's context is cancelled or times out while the statement at
\* this position of ReadAndApply runs: the statement returns the context's
\* error and the transaction is rolled back.
ContextCancelled(p) ==
    /\ pc[p] \in {"LockMetadata", "Exec", "Migrated", "UpdateRollback", "Commit"}
    /\ \E outcome \in CancelOutcomes(pc[p]) : Abort(p, tx[p], outcome)
    /\ log' = [log EXCEPT ![p] = Append(@, Entry(path[p], m[p].direction, "cancel", "file"))]
    /\ UNCHANGED <<metaExists, envVars, start, rel, options, m, migrations, path, call, stdVars, srcVars, pureVars>>

-----------------------------------------------------------------------------
(* Failures of the queries whose error the code does not return *)

\* The query of IsMigrated fails: Scan returns an error that is not
\* ErrNoRows, so IsMigrated answers true and ShouldRun goes on with it. The
\* query is only made when IsUp or IsDown let the candidate through.
IsMigratedFails(p) ==
    /\ pc[p] = "ShouldRun"
    /\ Revision(path[p]).ok
    /\ IF m[p].direction = Up THEN IsUp(Revision(path[p]).v, m[p].revision)
       ELSE IF m[p].direction = Down THEN IsDown(Revision(path[p]).v, m[p].revision)
       ELSE FALSE
    /\ IF m[p].direction = Down
       THEN /\ pc' = [pc EXCEPT ![p] = "Exec"]
            /\ log' = [log EXCEPT ![p] =
                         Append(@, Entry(path[p], m[p].direction, "queryfail", "file"))]
       ELSE /\ pc' = [pc EXCEPT ![p] = "Commit"]
            /\ log' = [log EXCEPT ![p] =
                         Append(Append(@, Entry(path[p], m[p].direction, "queryfail", "file")),
                                Entry(path[p], m[p].direction, "skip", "file"))]
    /\ UNCHANGED <<dbVars, envVars, start, rel, options, m, migrations, path, tx, result>>
    /\ UNCHANGED <<call, stdVars, srcVars, pureVars>>

\* The query of LatestMigration fails while Apply resolves the direction of
\* an explicit revision: Moving returns None and Apply goes on.
LatestMigrationFails(p) ==
    /\ pc[p] = "Moving"
    /\ options[p].Revision # Latest
    /\ m' = [m EXCEPT ![p] = [direction |-> None,
                              revision |-> options[p].Revision,
                              rollbacks |-> options[p].EmbeddedRollbacks]]
    /\ migrations' = [migrations EXCEPT ![p] = Available(Listing, None)]
    /\ pc' = [pc EXCEPT ![p] = "Apply"]
    /\ log' = [log EXCEPT ![p] = Append(@, Entry(NoName, None, "queryfail", "moving"))]
    /\ UNCHANGED <<dbVars, envVars, start, rel, options, path, tx, result>>
    /\ UNCHANGED <<call, stdVars, srcVars, pureVars>>

-----------------------------------------------------------------------------
(* Options.Rollback *)

\* The caller invokes Rollback with a number of steps.
StartRollback(p, steps, rollbacks) ==
    /\ pc[p] \in {"idle", "done"}
    /\ options' = [options EXCEPT ![p] = [Revision |-> Latest, EmbeddedRollbacks |-> rollbacks]]
    /\ call' = [call EXCEPT ![p] = [fn |-> "Rollback", steps |-> steps]]
    /\ rel' = [rel EXCEPT ![p] = [kind |-> "rollback", n |-> NoName]]
    /\ start' = [start EXCEPT ![p] = Snapshot]
    /\ log' = [log EXCEPT ![p] = <<>>]
    /\ m' = [m EXCEPT ![p] = NoMigration]
    /\ migrations' = [migrations EXCEPT ![p] = <<>>]
    /\ path' = [path EXCEPT ![p] = NoName]
    /\ IF steps < 1
       THEN ReturnFrom(p, "ErrInvalidStep")
       ELSE /\ pc' = [pc EXCEPT ![p] = "CreateMetadata"]
            /\ result' = [result EXCEPT ![p] = "running"]
    /\ UNCHANGED <<dbVars, envVars, tx, stdVars, srcVars, pureVars>>

\* WithRevision: a copy of the options with the revision replaced.
WithRevision(opts, version) == [opts EXCEPT !.Revision = version]

\* Options.Rollback after CreateMetadata: the latest applied migration, its
\* revision, the target, and the call of Apply with that target.
OptionsRollback(p) ==
    /\ pc[p] = "LatestMigration"
    /\ CanQuery(p)
    /\ \E rows \in Orders(DOMAIN table) :
          LET latest == LatestMigration(rows)
              revision == Revision(latest)
          IN  IF ~revision.ok
              THEN /\ ReturnFrom(p, "badname")
                   /\ UNCHANGED <<options, call>>
              ELSE /\ options' = [options EXCEPT ![p] =
                                     WithRevision(@, RollbackVersion(revision.v, call[p].steps))]
                   /\ call' = [call EXCEPT ![p].fn = "Apply"]
                   /\ pc' = [pc EXCEPT ![p] = "CreateMetadata"]
                   /\ UNCHANGED result
    /\ UNCHANGED <<dbVars, envVars, histVars, m, migrations, path, tx, stdVars, srcVars, pureVars>>

-----------------------------------------------------------------------------
(* Options.AtLatest *)

\* The caller invokes AtLatest.
StartAtLatest(p) ==
    /\ pc[p] \in {"idle", "done"}
    /\ options' = [options EXCEPT ![p] = NoOptions]
    /\ call' = [call EXCEPT ![p] = [fn |-> "AtLatest", steps |-> 0]]
    /\ rel' = [rel EXCEPT ![p] = [kind |-> "atlatest", n |-> NoName]]
    /\ start' = [start EXCEPT ![p] = Snapshot]
    /\ log' = [log EXCEPT ![p] = <<>>]
    /\ m' = [m EXCEPT ![p] = NoMigration]
    /\ migrations' = [migrations EXCEPT ![p] = <<>>]
    /\ path' = [path EXCEPT ![p] = NoName]
    /\ pc' = [pc EXCEPT ![p] = "CreateMetadata"]
    /\ result' = [result EXCEPT ![p] = "running"]
    /\ UNCHANGED <<dbVars, envVars, tx, stdVars, srcVars, pureVars>>

\* What AtLatest returns for the latest available revision and the latest
\* applied migration.
AtLatestOf(available, latestMigration) ==
    LET applied == Revision(latestMigration)
    IN  IF ~applied.ok THEN "badname"
        ELSE IF applied.v = available THEN "nil"
        ELSE IF applied.v < available THEN "ErrMigrateRequired"
        ELSE "ErrRollbackRequired"

\* Options.AtLatest after CreateMetadata. The directory, which AtLatest reads
\* first, does not change during the call.
AtLatest(p) ==
    /\ pc[p] = "AtLatest"
    /\ CanQuery(p)
    /\ \E rows \in Orders(DOMAIN table) :
          ReturnFrom(p, AtLatestOf(LatestRevision(Listing), LatestMigration(rows)))
    /\ UNCHANGED <<dbVars, envVars, histVars, options, m, migrations, path, tx, call,
                   stdVars, srcVars, pureVars>>

-----------------------------------------------------------------------------
(* The caller and the migrations directory *)

NoSnapshot == [table |-> NoRows, schema |-> {}, files |-> {}, bad |-> NoName]

NoRelation == [kind |-> "fresh", n |-> NoName]

\* The caller is done with the outcome of Apply.
Return(p) ==
    /\ pc[p] = "done"
    /\ pc' = [pc EXCEPT ![p] = "idle"]
    /\ options' = [options EXCEPT ![p] = NoOptions]
    /\ m' = [m EXCEPT ![p] = NoMigration]
    /\ migrations' = [migrations EXCEPT ![p] = <<>>]
    /\ path' = [path EXCEPT ![p] = NoName]
    /\ result' = [result EXCEPT ![p] = "none"]
    /\ log' = [log EXCEPT ![p] = <<>>]
    /\ start' = [start EXCEPT ![p] = NoSnapshot]
    /\ rel' = [rel EXCEPT ![p] = NoRelation]
    /\ call' = [call EXCEPT ![p] = NoCall]
    /\ UNCHANGED <<dbVars, envVars, tx, stdVars, srcVars, pureVars>>

\* A migration file is added to the directory between runs.
AddFile(name) ==
    /\ \A p \in Procs : pc[p] = "idle"
    /\ name \notin files
    /\ files' = files \cup {name}
    /\ UNCHANGED <<bad, dbVars, histVars, pc, options, m, migrations, path, tx, result>>
    /\ UNCHANGED <<call, stdVars, srcVars, pureVars>>

\* A migration file is removed from the directory between runs.
RemoveFile(name) ==
    /\ \A p \in Procs : pc[p] \in {"idle", "done"}
    /\ name \in files
    /\ files' = files \ {name}
    /\ UNCHANGED <<bad, dbVars, histVars, pc, options, m, migrations, path, tx, result>>
    /\ UNCHANGED <<call, stdVars, srcVars, pureVars>>

\* The failing statement of the bad file is removed between runs.
FixFile ==
    /\ \A p \in Procs : pc[p] \in {"idle", "done"}
    /\ bad \in files
    /\ bad' = NoName
    /\ UNCHANGED <<files, dbVars, histVars, pc, options, m, migrations, path, tx, result>>
    /\ UNCHANGED <<call, stdVars, srcVars, pureVars>>

-----------------------------------------------------------------------------
(* The std span: CreateMetadata (postgres/std/tx.go) *)

Letters == {"a", "b", "c", "d", "i", "l", "m", "p", "s", "u"}

\* validObjName: ^[a-zA-Z_][a-zA-Z0-9_]*$
validObjName(name) ==
    /\ name # <<>>
    /\ name[1] \in Letters \cup {"_"}
    /\ \A i \in 2..Len(name) : name[i] \in Letters \cup {"_"} \/ IsDigit(name[i])

\* The schema every PostgreSQL database has.
Public == <<"p", "u", "b", "l", "i", "c">>

\* The schema and table names CreateMetadata is called with.
SchemaNames == {<<>>, <<"d", "b">>, <<"d", "-", "b">>}

TableNames == {<<>>, <<"s", "m">>, <<"1", "s", "m">>}

NoStmt == [stmt |-> "none", name |-> <<>>]

\* createSchemaStmt: validates the schema; no statement for a blank schema.
createSchemaStmt(schemaName) ==
    IF schemaName = <<>> THEN [stmt |-> NoStmt, err |-> "nil"]
    ELSE IF ~validObjName(schemaName) THEN [stmt |-> NoStmt, err |-> "ErrInvalidSchemaName"]
    ELSE [stmt |-> [stmt |-> "create schema", name |-> schemaName], err |-> "nil"]

\* metadataName: validates both names; "%s.%s" of schema and table.
metadataName(schemaName, tableName) ==
    IF schemaName # <<>> /\ ~validObjName(schemaName)
    THEN [name |-> <<>>, err |-> "ErrInvalidSchemaName"]
    ELSE IF tableName = <<>> THEN [name |-> <<>>, err |-> "ErrTableNameRequired"]
    ELSE IF ~validObjName(tableName) THEN [name |-> <<>>, err |-> "ErrInvalidTableName"]
    ELSE [name |-> schemaName \o <<".">> \o tableName, err |-> "nil"]

createTableStmt(metadataTable) == [stmt |-> "create table", name |-> metadataTable]

\* missingMetadataSchema: no query for a blank schema.
missingMetadataSchema(catalog, schemaName) ==
    IF schemaName = <<>> THEN FALSE ELSE schemaName \notin catalog

\* Regression variant of missingMetadataTable: the table is always taken
\* for missing.
missingMetadataTableAlways(catalog, schemaName, tableName) == TRUE

\* missingMetadataTable: a blank schema stands for public.
missingMetadataTable(catalog, schemaName, tableName) ==
    (IF schemaName = <<>> THEN Public ELSE schemaName) \o <<".">> \o tableName \notin catalog

\* The first part of CreateMetadata: the schema. What was sent to the
\* database, the catalog afterwards, and the error.
CreateMetadataSchema(catalog, schemaName) ==
    LET made == createSchemaStmt(schemaName)
        query == [stmt |-> "select schema", name |-> schemaName]
    IN  IF made.err # "nil" THEN [sent |-> <<>>, catalog |-> catalog, err |-> made.err]
        ELSE IF made.stmt = NoStmt THEN [sent |-> <<>>, catalog |-> catalog, err |-> "nil"]
        ELSE IF missingMetadataSchema(catalog, schemaName)
        THEN [sent |-> <<query, made.stmt>>, catalog |-> catalog \cup {schemaName}, err |-> "nil"]
        ELSE [sent |-> <<query>>, catalog |-> catalog, err |-> "nil"]

\* create table <name>: a name that starts with the dot is a syntax error,
\* and a table that exists cannot be created again.
ExecCreateTable(catalog, name) ==
    IF Head(name) = "." THEN [catalog |-> catalog, err |-> "sqlfail"]
    ELSE IF name \in catalog THEN [catalog |-> catalog, err |-> "createfail"]
    ELSE [catalog |-> catalog \cup {name}, err |-> "nil"]

\* CreateMetadata on the catalog the span sees: what was sent to the
\* database, the catalog afterwards, the error and the returned name.
CreateMetadataOn(catalog, schemaName, tableName) ==
    LET first == CreateMetadataSchema(catalog, schemaName)
        named == metadataName(schemaName, tableName)
        query == [stmt |-> "select table", name |-> tableName]
        made == ExecCreateTable(first.catalog, named.name)
    IN  IF first.err # "nil"
        THEN [sent |-> first.sent, catalog |-> first.catalog, err |-> first.err, name |-> <<>>]
        ELSE IF named.err # "nil"
        THEN [sent |-> first.sent, catalog |-> first.catalog, err |-> named.err, name |-> <<>>]
        ELSE IF ~missingMetadataTable(first.catalog, schemaName, tableName)
        THEN [sent |-> Append(first.sent, query), catalog |-> first.catalog,
              err |-> "nil", name |-> named.name]
        ELSE [sent |-> first.sent \o <<query, createTableStmt(named.name)>>,
              catalog |-> made.catalog, err |-> made.err,
              name |-> IF made.err = "nil" THEN named.name ELSE <<>>]

-----------------------------------------------------------------------------
(* The std span: multi-level transactions (postgres/std/tx.go) *)

txPending == "txPending"
txCommit == "txCommit"

\* current: the state of the innermost level.
current(d) == d[Len(d)]

\* state: set the state of the innermost level.
state(d, value) == [d EXCEPT ![Len(d)] = value]

\* pop: drop the innermost level.
pop(d) == SubSeq(d, 1, Len(d) - 1)

\* The tables the statements executed through a transaction create.
Samples == {<<"s", "a", "m", "p", "l", "e">>, <<"g", "o", "o", "d", "y">>}

NoHist == [before |-> {}, commits |-> 0, calls |-> <<>>]

NoMeta ==
    [schema |-> <<>>, table |-> <<>>, sent |-> <<>>, err |-> "none", name |-> <<>>,
     existed |-> FALSE]

\* The schema and the table of these names are in the catalog (history only).
Existed(catalog, schemaName, tableName) ==
    /\ IF schemaName = <<>> THEN TRUE ELSE schemaName \in catalog
    /\ (IF schemaName = <<>> THEN Public ELSE schemaName) \o <<".">> \o tableName \in catalog

\* No transaction was begun yet on the std span.
StdIdle ==
    /\ depth = <<>>
    /\ inRollback = FALSE
    /\ sqlTx = "none"
    /\ pending = {}
    /\ persisted = {Public}
    /\ ret = "none"
    /\ hist = NoHist
    /\ meta = NoMeta

applyVars == <<files, bad, metaExists, table, schema, lockedBy, pc, options, m,
               migrations, path, tx, result, log, start, rel, call, srcVars, pureVars>>

\* The longest history of calls on one transaction.
MaxCalls == 6

\* sql.Tx.Commit: a transaction that is done returns ErrTxDone.
SqlCommit(txState, db, writes) ==
    IF txState = "active"
    THEN [sqlTx |-> "committed", persisted |-> db \cup writes, err |-> "nil"]
    ELSE [sqlTx |-> txState, persisted |-> db, err |-> "ErrTxDone"]

\* sql.Tx.Rollback: a transaction that is done returns ErrTxDone.
SqlRollback(txState, db, writes) ==
    IF txState = "active"
    THEN [sqlTx |-> "rolledback", persisted |-> db, err |-> "nil"]
    ELSE [sqlTx |-> txState, persisted |-> db, err |-> "ErrTxDone"]

\* Regression variant of CommitOf: the commit of any level commits the
\* underlying transaction.
CommitOfEveryLevel(d, rolledBack) ==
    IF rolledBack THEN [panic |-> FALSE, ret |-> "ErrRolledBack", commit |-> FALSE, depth |-> d]
    ELSE IF d = <<>> THEN [panic |-> TRUE, ret |-> "panic", commit |-> FALSE, depth |-> d]
    ELSE IF current(d) = txCommit
    THEN [panic |-> FALSE, ret |-> "ErrCommitted", commit |-> FALSE, depth |-> d]
    ELSE [panic |-> FALSE, ret |-> "nil", commit |-> TRUE, depth |-> state(d, txCommit)]

\* Tx.Commit up to the call of the underlying Commit: the returned error,
\* whether the underlying transaction is committed, and the levels after.
\* current() of an empty stack is an index out of range.
CommitOf(d, rolledBack) ==
    IF rolledBack THEN [panic |-> FALSE, ret |-> "ErrRolledBack", commit |-> FALSE, depth |-> d]
    ELSE IF d = <<>> THEN [panic |-> TRUE, ret |-> "panic", commit |-> FALSE, depth |-> d]
    ELSE IF current(d) = txCommit
    THEN [panic |-> FALSE, ret |-> "ErrCommitted", commit |-> FALSE, depth |-> d]
    ELSE [panic |-> FALSE, ret |-> "nil", commit |-> Len(d) = 1, depth |-> state(d, txCommit)]

\* Regression variant of CloseOf: a level closed without a commit is popped
\* without the rollback.
CloseOfWithoutRollback(d, rolledBack) ==
    IF d = <<>> THEN [panic |-> TRUE, rollback |-> FALSE, inRollback |-> rolledBack, depth |-> d]
    ELSE [panic |-> FALSE, rollback |-> FALSE, inRollback |-> rolledBack, depth |-> pop(d)]

\* Regression variant of CloseOf: the rollback is not remembered.
CloseOfForgetful(d, rolledBack) ==
    IF d = <<>> THEN [panic |-> TRUE, rollback |-> FALSE, inRollback |-> rolledBack, depth |-> d]
    ELSE IF current(d) # txPending
    THEN [panic |-> FALSE, rollback |-> FALSE, inRollback |-> rolledBack, depth |-> pop(d)]
    ELSE [panic |-> FALSE, rollback |-> TRUE, inRollback |-> rolledBack, depth |-> pop(d)]

\* Tx.Close up to the call of the underlying Rollback: whether it rolls
\* back, the rollback flag and the levels after the deferred pop.
CloseOf(d, rolledBack) ==
    IF d = <<>> THEN [panic |-> TRUE, rollback |-> FALSE, inRollback |-> rolledBack, depth |-> d]
    ELSE IF current(d) # txPending
    THEN [panic |-> FALSE, rollback |-> FALSE, inRollback |-> rolledBack, depth |-> pop(d)]
    ELSE [panic |-> FALSE, rollback |-> TRUE, inRollback |-> TRUE, depth |-> pop(d)]

\* A call on the transaction, as the history keeps it.
Called(op, value, arg) ==
    [op |-> op, ret |-> value, level |-> Len(depth), arg |-> arg,
     was |-> IF depth = <<>> THEN "none" ELSE current(depth)]

\* The caller holds a transaction and its process is alive.
InTx == sqlTx # "none" /\ ret # "panic" /\ Len(hist.calls) < MaxCalls

\* DB.CreateMetadata, called before the first transaction.
DB_CreateMetadata(schemaName, tableName) ==
    /\ sqlTx = "none"
    /\ LET made == CreateMetadataOn(persisted, schemaName, tableName)
       IN  /\ persisted' = made.catalog
           /\ meta' = [schema |-> schemaName, table |-> tableName, sent |-> made.sent,
                       err |-> made.err, name |-> made.name,
                       existed |-> Existed(persisted, schemaName, tableName)]
    /\ UNCHANGED <<depth, inRollback, sqlTx, pending, ret, hist, applyVars>>

\* DB.Begin (newTx): a transaction of one pending level.
DB_Begin ==
    /\ sqlTx # "active"
    /\ depth' = <<txPending>>
    /\ inRollback' = FALSE
    /\ sqlTx' = "active"
    /\ pending' = {}
    /\ ret' = "nil"
    /\ hist' = [before |-> persisted, commits |-> 0, calls |-> <<>>]
    /\ meta' = NoMeta
    /\ UNCHANGED <<persisted, applyVars>>

\* Tx.Begin: a sub-transaction is one more pending level.
Tx_Begin ==
    /\ InTx
    /\ IF inRollback
       THEN /\ ret' = "ErrRolledBack"
            /\ UNCHANGED depth
       ELSE /\ ret' = "nil"
            /\ depth' = Append(depth, txPending)
    /\ hist' = [hist EXCEPT !.calls = Append(@, Called("Begin", ret', <<>>))]
    /\ UNCHANGED <<inRollback, sqlTx, pending, persisted, meta, applyVars>>

\* Tx.Exec: the statement goes to the underlying transaction.
Tx_Exec(sample) ==
    /\ InTx
    /\ IF sqlTx = "active"
       THEN /\ ret' = "nil"
            /\ pending' = pending \cup {sample}
       ELSE /\ ret' = "ErrTxDone"
            /\ UNCHANGED pending
    /\ hist' = [hist EXCEPT !.calls = Append(@, Called("Exec", ret', sample))]
    /\ UNCHANGED <<depth, inRollback, sqlTx, persisted, meta, applyVars>>

\* The process panics: the server drops its open transaction.
Panic ==
    /\ ret' = "panic"
    /\ sqlTx' = IF sqlTx = "active" THEN "rolledback" ELSE sqlTx
    /\ pending' = {}
    /\ UNCHANGED <<depth, inRollback, persisted>>

\* Tx.Commit
Tx_Commit ==
    /\ InTx
    /\ LET c == CommitOf(depth, inRollback)
           real == SqlCommit(sqlTx, persisted, pending)
       IN  IF c.panic
           THEN /\ Panic
                /\ hist' = [hist EXCEPT !.calls = Append(@, Called("Commit", "panic", <<>>))]
           ELSE IF c.commit
           THEN /\ depth' = c.depth
                /\ sqlTx' = real.sqlTx
                /\ persisted' = real.persisted
                /\ pending' = IF real.err = "nil" THEN {} ELSE pending
                /\ ret' = real.err
                /\ hist' = [hist EXCEPT !.commits = @ + 1,
                                        !.calls = Append(@, Called("Commit", real.err, <<>>))]
                /\ UNCHANGED inRollback
           ELSE /\ depth' = c.depth
                /\ ret' = c.ret
                /\ hist' = [hist EXCEPT !.calls = Append(@, Called("Commit", c.ret, <<>>))]
                /\ UNCHANGED <<inRollback, sqlTx, pending, persisted>>
    /\ UNCHANGED <<meta, applyVars>>

\* Tx.Close
Tx_Close ==
    /\ InTx
    /\ LET c == CloseOf(depth, inRollback)
           real == SqlRollback(sqlTx, persisted, pending)
       IN  IF c.panic
           THEN /\ Panic
                /\ hist' = [hist EXCEPT !.calls = Append(@, Called("Close", "panic", <<>>))]
           ELSE IF c.rollback
           THEN /\ depth' = c.depth
                /\ inRollback' = c.inRollback
                /\ sqlTx' = real.sqlTx
                /\ persisted' = real.persisted
                /\ pending' = IF real.err = "nil" THEN {} ELSE pending
                /\ ret' = real.err
                /\ hist' = [hist EXCEPT !.calls = Append(@, Called("Close", real.err, <<>>))]
           ELSE /\ depth' = c.depth
                /\ inRollback' = c.inRollback
                /\ ret' = "nil"
                /\ hist' = [hist EXCEPT !.calls = Append(@, Called("Close", "nil", <<>>))]
                /\ UNCHANGED <<sqlTx, pending, persisted>>
    /\ UNCHANGED <<meta, applyVars>>

-----------------------------------------------------------------------------
(* Functions of migrate.go called on their own *)

\* The longest migration text, in lines.
MaxLines == 4

\* The lines a migration text is made of.
ParseLines ==
    {[op |-> "Up", obj |-> 0], [op |-> "Down", obj |-> 0], BlankLine}
        \cup {[op |-> "text", obj |-> k] : k \in 1..Len(LineText)}

Texts == UNION {[1..n -> ParseLines] : n \in 0..MaxLines}

\* ReadSQL on a reader that hands out `text` (the StringReader of the tests).
ReadSQLOf(text, direction) ==
    /\ input = NoArg
    /\ input' = [fn |-> "ReadSQL", text |-> text, direction |-> direction]
    /\ output' = ParseSQL(text, direction)
    /\ UNCHANGED <<dbVars, envVars, histVars, pc, options, m, migrations, path, tx, result,
                   call, stdVars, srcVars>>

\* The identifiers the metadata table may hold: revisions from 0 on, and one
\* whose revision does not parse.
Recorded == {NameOf(n) : n \in 0..MaxRev} \cup {<<"x", "-", "m", ".sql">>}

\* LatestMigration(ctx, span, metadataTable), the query returning `rows`.
LatestMigrationOf(rows) ==
    /\ input = NoArg
    /\ input' = [fn |-> "LatestMigration", rows |-> rows]
    /\ output' = [latest |-> LatestMigration(rows), err |-> "nil"]
    /\ UNCHANGED <<dbVars, envVars, histVars, pc, options, m, migrations, path, tx, result,
                   call, stdVars, srcVars>>

-----------------------------------------------------------------------------
(* One process migrating a database, with failures and a changing directory *)

Init ==
    /\ files = Names
    /\ bad \in Names \cup {NoName}
    /\ metaExists = FALSE
    /\ table = NoRows
    /\ schema = {}
    /\ lockedBy = 0
    /\ pc = [p \in Procs |-> "idle"]
    /\ options = [p \in Procs |-> NoOptions]
    /\ m = [p \in Procs |-> NoMigration]
    /\ migrations = [p \in Procs |-> <<>>]
    /\ path = [p \in Procs |-> NoName]
    /\ tx = [p \in Procs |-> NoTx]
    /\ result = [p \in Procs |-> "none"]
    /\ log = [p \in Procs |-> <<>>]
    /\ start = [p \in Procs |-> NoSnapshot]
    /\ rel = [p \in Procs |-> NoRelation]
    /\ call = [p \in Procs |-> NoCall]
    /\ StdIdle
    /\ SourceOk
    /\ PureIdle

\* The arguments Rollback is called with.
Steps == -1..MaxRev

Step(p) ==
    \/ MissingMetadataTable(p)
    \/ CreateMetadata(p)
    \/ ApplyDirection(p)
    \/ Begin(p)
    \/ LockMetadata(p)
    \/ CheckShouldRun(p)
    \/ Exec(p)
    \/ Migrated(p)
    \/ UpdateRollback(p)
    \/ Commit(p)
    \/ ApplyDone(p)
    \/ HandleEmbeddedRollbacks(p)
    \/ Rollback(p)
    \/ ApplyRollbacks(p)

Next ==
    \/ \E revision \in Revisions, rollbacks \in BOOLEAN : StartApply(1, revision, rollbacks)
    \/ \E steps \in Steps, rollbacks \in BOOLEAN : StartRollback(1, steps, rollbacks)
    \/ OptionsRollback(1)
    \/ StartAtLatest(1)
    \/ AtLatest(1)
    \/ Step(1)
    \/ MissingMetadataTableFails(1)
    \/ LockMetadataFails(1)
    \/ MigratedFails(1)
    \/ UpdateRollbackFails(1)
    \/ CommitFails(1)
    \/ ContextCancelled(1)
    \/ Return(1)
    \/ \E name \in Names : AddFile(name)
    \/ \E name \in Names : RemoveFile(name)
    \/ FixFile

Spec == Init /\ [][Next]_vars

-----------------------------------------------------------------------------
(* Two processes running Apply at the same time with the same options and  *)
(* the same files, on a database an earlier run left at revision k.        *)

InitConc ==
    \E revision \in Revisions, rollbacks \in BOOLEAN, k \in 0..MaxRev, exists \in BOOLEAN :
        /\ IF k > 0 THEN exists ELSE TRUE
        /\ files = Names
        /\ bad = NoName
        /\ metaExists = exists
        /\ table = [n \in {NameOf(i) : i \in 1..k} |-> NULL]
        /\ schema = 1..k
        /\ lockedBy = 0
        /\ pc = [p \in Procs |-> "CreateMetadata"]
        /\ options = [p \in Procs |-> [Revision |-> revision, EmbeddedRollbacks |-> rollbacks]]
        /\ m = [p \in Procs |-> NoMigration]
        /\ migrations = [p \in Procs |-> <<>>]
        /\ path = [p \in Procs |-> NoName]
        /\ tx = [p \in Procs |-> NoTx]
        /\ result = [p \in Procs |-> "running"]
        /\ log = [p \in Procs |-> <<>>]
        /\ start = [p \in Procs |-> [table |-> [n \in {NameOf(i) : i \in 1..k} |-> NULL],
                                     schema |-> 1..k, files |-> Names, bad |-> NoName]]
        /\ rel = [p \in Procs |-> [kind |-> "concurrent", n |-> NoName]]
        /\ call = [p \in Procs |-> [fn |-> "Apply", steps |-> 0]]
        /\ StdIdle
        /\ SourceOk
        /\ PureIdle

NextConc == \E p \in Procs : Step(p)

SpecConc == InitConc /\ [][NextConc]_vars

-----------------------------------------------------------------------------
(* Two processes running Apply with embedded rollbacks at the same time, on *)
(* a database an earlier run left at revision k, the application now       *)
(* shipping only the files up to revision j.                               *)

InitReconcile ==
    \E revision \in Revisions, k \in 0..MaxRev, j \in 0..MaxRev, exists \in BOOLEAN :
        /\ IF k > 0 THEN exists ELSE TRUE
        /\ files = {NameOf(i) : i \in 1..j}
        /\ bad = NoName
        /\ metaExists = exists
        /\ table = [n \in {NameOf(i) : i \in 1..k} |-> NULL]
        /\ schema = 1..k
        /\ lockedBy = 0
        /\ pc = [p \in Procs |-> "CreateMetadata"]
        /\ options = [p \in Procs |-> [Revision |-> revision, EmbeddedRollbacks |-> TRUE]]
        /\ m = [p \in Procs |-> NoMigration]
        /\ migrations = [p \in Procs |-> <<>>]
        /\ path = [p \in Procs |-> NoName]
        /\ tx = [p \in Procs |-> NoTx]
        /\ result = [p \in Procs |-> "running"]
        /\ log = [p \in Procs |-> <<>>]
        /\ start = [p \in Procs |-> [table |-> [n \in {NameOf(i) : i \in 1..k} |-> NULL],
                                     schema |-> 1..k,
                                     files |-> {NameOf(i) : i \in 1..j},
                                     bad |-> NoName]]
        /\ rel = [p \in Procs |-> [kind |-> "concurrent", n |-> NoName]]
        /\ call = [p \in Procs |-> [fn |-> "Apply", steps |-> 0]]
        /\ StdIdle
        /\ SourceOk
        /\ PureIdle

SpecReconcile == InitReconcile /\ [][NextConc]_vars

-----------------------------------------------------------------------------
(* A caller of the std span: CreateMetadata, then transactions with         *)
(* sub-transactions, the calls in any order.                                *)

InitStd == Init /\ bad = NoName

NextStd ==
    \/ \E schemaName \in SchemaNames, tableName \in TableNames :
          DB_CreateMetadata(schemaName, tableName)
    \/ DB_Begin
    \/ Tx_Begin
    \/ \E sample \in Samples : Tx_Exec(sample)
    \/ Tx_Commit
    \/ Tx_Close

SpecStd == InitStd /\ [][NextStd]_vars

-----------------------------------------------------------------------------
(* One process migrating a database from a source that fails: the         *)
(* directory does not exist or cannot be listed, or files cannot be read. *)

InitSource ==
    /\ files = Names
    /\ bad = NoName
    /\ metaExists = FALSE
    /\ table = NoRows
    /\ schema = {}
    /\ lockedBy = 0
    /\ pc = [p \in Procs |-> "idle"]
    /\ options = [p \in Procs |-> NoOptions]
    /\ m = [p \in Procs |-> NoMigration]
    /\ migrations = [p \in Procs |-> <<>>]
    /\ path = [p \in Procs |-> NoName]
    /\ tx = [p \in Procs |-> NoTx]
    /\ result = [p \in Procs |-> "none"]
    /\ log = [p \in Procs |-> <<>>]
    /\ start = [p \in Procs |-> NoSnapshot]
    /\ rel = [p \in Procs |-> NoRelation]
    /\ call = [p \in Procs |-> NoCall]
    /\ StdIdle
    /\ PureIdle
    /\ dirErr \in {"nil", "ErrNotExist", "EIO"}
    /\ unreadable \in SUBSET Names

NextSource ==
    \/ \E revision \in Revisions, rollbacks \in BOOLEAN : StartApply(1, revision, rollbacks)
    \/ Step(1)
    \/ Return(1)

SpecSource == InitSource /\ [][NextSource]_vars

-----------------------------------------------------------------------------
(* One process whose queries of the metadata table may fail *)

InitQuery == Init /\ bad = NoName

NextQuery ==
    \/ \E revision \in Revisions, rollbacks \in BOOLEAN : StartApply(1, revision, rollbacks)
    \/ Step(1)
    \/ IsMigratedFails(1)
    \/ LatestMigrationFails(1)
    \/ Return(1)

SpecQuery == InitQuery /\ [][NextQuery]_vars

-----------------------------------------------------------------------------
(* The functions called on their own, on every input of the bounds *)

InitPure == Init /\ bad = NoName

NextPure ==
    \/ \E text \in Texts, direction \in {Up, Down} : ReadSQLOf(text, direction)
    \/ \E S \in SUBSET Recorded : \E rows \in Orders(S) : LatestMigrationOf(rows)

SpecPure == InitPure /\ [][NextPure]_vars

-----------------------------------------------------------------------------
(* Properties *)

\* Outcomes of Apply that come from a failure of the database itself.
Injected == {"metafail", "storefail", "commitfail", "lockfail", "cancelled", "panic"}

\* The entries of a run's log that stand for the execution of a SQL body.
IsExec(e) == e.act \in {"exec", "fail"}

Entries(p) == {log[p][i] : i \in 1..Len(log[p])}

\* The text the down section of the file `name` yields, trimmed.
DownSQL(name) == TrimSpace(ParseSQL(FileText(name), Down).sql)

C2_UpOnlyWithinTarget ==
    \A p \in Procs : \A e \in Entries(p) :
        (IsExec(e) /\ e.direction = Up /\ e.src = "file")
            => /\ IF options[p].Revision = Latest THEN TRUE
                  ELSE Rev(e.migration) <= options[p].Revision
               /\ ~e.recorded

\* C2 happens: an up run to an explicit target below the highest file skipped
\* an applied migration, executed one within the target, and skipped one above.
C2_Witness ==
    \E p \in Procs :
        /\ pc[p] = "done"
        /\ result[p] = "nil"
        /\ options[p].Revision # Latest
        /\ \E e \in Entries(p) : e.act = "skip" /\ e.direction = Up /\ e.recorded
        /\ \E e \in Entries(p) : e.act = "exec" /\ e.direction = Up
        /\ \E e \in Entries(p) :
              e.act = "skip" /\ e.direction = Up /\ Rev(e.migration) > options[p].Revision

\* C3: when the SQL of migration N fails, Apply returns an error at once (no
\* later candidate is attempted), N is not recorded and nothing of N is in the
\* schema, and what the run committed before stays applied and recorded.
C3_FailedMigrationLeavesNothing ==
    \A p \in Procs : \A i \in 1..Len(log[p]) :
        log[p][i].act = "fail"
            => /\ i = Len(log[p])
               /\ pc[p] = "done"
               /\ result[p] \notin {"nil", "running", "none"}
               /\ log[p][i].migration \notin DOMAIN table
               /\ Rev(log[p][i].migration) \notin schema
               /\ tx[p] = NoTx
               /\ lockedBy # p
               /\ \A j \in 1..(i - 1) :
                     (log[p][j].act = "exec" /\ log[p][j].direction = Up)
                         => /\ log[p][j].migration \in DOMAIN table
                            /\ Rev(log[p][j].migration) \in schema

\* C3 happens: a run executed and committed a migration, then the next one failed.
C3_Witness ==
    \E p \in Procs :
        /\ pc[p] = "done"
        /\ result[p] = "sqlfail"
        /\ Len(log[p]) >= 2
        /\ log[p][Len(log[p])].act = "fail"
        /\ log[p][Len(log[p]) - 1].act = "exec"

\* The migrations whose bodies a run executed successfully, in order.
IsExecuted(e) == e.act = "exec"

Executed(p) == [i \in 1..Len(SelectSeq(log[p], IsExecuted)) |->
                   SelectSeq(log[p], IsExecuted)[i].migration]

\* C4: a second Apply with the same options and the same files, after a
\* first one that succeeded, executes no SQL body, changes no row and
\* returns success.
C4_SecondApplyDoesNothing ==
    \A p \in Procs :
        rel[p].kind = "repeat"
            => /\ \A e \in Entries(p) : ~IsExec(e)
               /\ table = start[p].table
               /\ schema = start[p].schema
               /\ (pc[p] = "done" /\ result[p] \notin Injected) => result[p] = "nil"

\* C5: re-invoking Apply with the same options after the run aborted at N and
\* N's file was fixed executes the up bodies of exactly the not yet applied
\* migrations from N on, in ascending order, none below N, and succeeds.
C5_ResumeCompletes ==
    \A p \in Procs :
        rel[p].kind = "resume"
            => /\ \A e \in Entries(p) :
                     IsExec(e) => /\ e.direction = Up
                                  /\ e.src = "file"
                                  /\ Rev(e.migration) >= Rev(rel[p].n)
               /\ (pc[p] = "done" /\ result[p] \notin Injected)
                     => /\ result[p] = "nil"
                        /\ Executed(p) =
                              SortUp({f \in start[p].files :
                                         /\ Rev(f) >= Rev(rel[p].n)
                                         /\ f \notin DOMAIN start[p].table
                                         /\ IF options[p].Revision = Latest THEN TRUE
                                            ELSE Rev(f) <= options[p].Revision})

\* The run of p started with the latest applied revision above its explicit
\* target and with the file of every recorded migration present.
DowngradeWithFiles(p) ==
    /\ pc[p] # "idle"
    /\ options[p].Revision # Latest
    /\ \E n \in DOMAIN start[p].table : Rev(n) > options[p].Revision
    /\ DOMAIN start[p].table \subseteq start[p].files

\* C6: such a run executes the down body of recorded migrations above the
\* target only, leaves every row at or below the target as it was, and on
\* success has rolled back, once each, exactly the recorded migrations above
\* the target and deleted their rows.
C6_DownExactlyAboveTarget ==
    \A p \in Procs :
        DowngradeWithFiles(p)
            => /\ \A e \in Entries(p) :
                     IsExec(e) => /\ e.direction = Down
                                  /\ e.recorded
                                  /\ e.migration \in DOMAIN start[p].table
                                  /\ Rev(e.migration) > options[p].Revision
               /\ \A n \in Names :
                     Rev(n) <= options[p].Revision
                         => /\ (n \in DOMAIN table) <=> (n \in DOMAIN start[p].table)
                            /\ (Rev(n) \in schema) <=> (Rev(n) \in start[p].schema)
                            /\ n \in DOMAIN table => table[n] = start[p].table[n]
               /\ (pc[p] = "done" /\ result[p] = "nil")
                     => /\ Executed(p) =
                              SortDown({n \in DOMAIN start[p].table : Rev(n) > options[p].Revision})
                        /\ \A n \in DOMAIN table : Rev(n) <= options[p].Revision

\* C6 happens: a downgrade rolled back some migrations and kept a lower one.
C6_Witness ==
    \E p \in Procs :
        /\ DowngradeWithFiles(p)
        /\ pc[p] = "done"
        /\ result[p] = "nil"
        /\ Len(Executed(p)) >= 2
        /\ DOMAIN table # {}

\* C7: with embedded rollbacks, once Migrated has inserted the row of an
\* applied migration, the row's rollback column (as the transaction sees it)
\* holds the trimmed down section of the file.
C7_RollbackStoredAfterInsert ==
    \A p \in Procs :
        (/\ pc[p] = "Commit"
         /\ m[p].rollbacks
         /\ m[p].direction = Up
         /\ Filename(path[p]) \in DOMAIN tx[p].rows)
            => TableView(tx[p])[Filename(path[p])] = DownSQL(Filename(path[p]))

\* C8: after a run with embedded rollbacks applied migrations to an empty
\* database and files were then removed, Apply with embedded rollbacks and an
\* explicit target succeeds, and every recorded migration above the target
\* whose file is gone is rolled back from its stored SQL and its row deleted.
C8_RollbackFromStoredSQL ==
    \A p \in Procs :
        (pc[p] = "done" /\ rel[p].kind = "unfiled" /\ result[p] \notin Injected)
            => /\ result[p] = "nil"
               /\ \A n \in DOMAIN start[p].table :
                     (Rev(n) > options[p].Revision /\ n \notin start[p].files)
                         => /\ n \notin DOMAIN table
                            /\ \E e \in Entries(p) :
                                  e.migration = n /\ e.act = "exec" /\ e.src = "stored"

\* The number of times the processes executed the body of f.
Executions(f) ==
    Cardinality({pi \in Procs \X (1..MaxRev) :
                    /\ pi[2] <= Len(log[pi[1]])
                    /\ log[pi[1]][pi[2]].migration = f
                    /\ IsExec(log[pi[1]][pi[2]])})

\* C9: two concurrent Apply runs with the same files and target: no body is
\* executed twice, and when both have returned, both returned success, every
\* migration that was to be applied was executed exactly once and is
\* recorded, and the process that did not execute it skipped it as applied.
C9_ConcurrentApplySerializes ==
    /\ \A f \in Names : Executions(f) <= 1
    /\ (\A p \in Procs : pc[p] = "done")
          => /\ \A p \in Procs : result[p] = "nil"
             /\ \A p \in Procs : \A e \in Entries(p) :
                   (e.act = "exec" /\ e.direction = Up)
                       => /\ e.migration \in DOMAIN table
                          /\ \A q \in Procs \ {p} : \E d \in Entries(q) :
                                d.migration = e.migration /\ d.act = "skip" /\ d.recorded
             /\ \A p \in Procs : \A f \in start[p].files :
                   (/\ m[p].direction = Up
                    /\ f \notin DOMAIN start[p].table
                    /\ IsUp(Rev(f), options[p].Revision))
                       => Executions(f) = 1

\* C10: Apply to revision 0 with embedded rollbacks, right after an Apply to
\* latest on an empty database with the same files, leaves no row in the
\* metadata table and no object in the schema, every applied migration having
\* been undone by the down body of its file.
C10_RoundTrip ==
    \A p \in Procs :
        (pc[p] = "done" /\ rel[p].kind = "roundtrip" /\ result[p] \notin Injected)
            => /\ result[p] = "nil"
               /\ table = NoRows
               /\ schema = {}
               /\ Executed(p) = SortDown(DOMAIN start[p].table)
               /\ \A e \in Entries(p) : IsExec(e) => e.direction = Down /\ e.src = "file"

\* C10 happens: the round trip ended on a database that had all files applied.
C10_Witness ==
    \E p \in Procs :
        /\ pc[p] = "done"
        /\ rel[p].kind = "roundtrip"
        /\ result[p] = "nil"
        /\ Cardinality(DOMAIN start[p].table) = MaxRev
        /\ table = NoRows

\* The positions of a run between Moving and the return of Apply.
ApplyPcs == {"Apply", "LockMetadata", "ShouldRun", "Exec", "Migrated", "UpdateRollback",
             "Commit", "HandleEmbeddedRollbacks", "Rollback"}

\* The highest revision among the recorded migrations `applied` (0 if none).
HighestApplied(applied) ==
    IF applied = {} THEN 0
    ELSE CHOOSE r \in {Rev(n) : n \in applied} : \A n \in applied : Rev(n) <= r

\* The direction the rule gives for the recorded migrations and an explicit target.
ExpectedDirection(applied, target) ==
    IF applied = {} THEN Up
    ELSE IF HighestApplied(applied) < target THEN Up
    ELSE IF HighestApplied(applied) > target THEN Down
    ELSE None

ClampedTarget(r, steps) == IF r - steps > 0 THEN r - steps ELSE 0

HighestOf(applied, k) ==
    {n \in applied : Cardinality({x \in applied : Rev(x) > Rev(n)}) < k}

\* C13: a successful Rollback(N), the file of every applied migration being
\* in the directory, removes exactly the min(N, number applied) applied
\* migrations with the highest revisions, whatever the revisions of the
\* applied migrations are.
C13_RollbackRemovesSteps ==
    \A p \in Procs :
        (/\ rel[p].kind = "rollback"
         /\ pc[p] = "done"
         /\ result[p] = "nil"
         /\ DOMAIN start[p].table \subseteq start[p].files)
            => DOMAIN table =
                  DOMAIN start[p].table \ HighestOf(DOMAIN start[p].table, call[p].steps)

\* C15: when the context is cancelled while a migration is in progress, the
\* run ends there, the migration's transaction is rolled back (its row and
\* its schema object are as before it began, the lock is released), what the
\* run committed earlier stays applied, and Apply returns an error.
C15_CancelRollsBackAndReturns ==
    \A p \in Procs : \A i \in 1..Len(log[p]) :
        log[p][i].act = "cancel"
            => /\ i = Len(log[p])
               /\ pc[p] = "done"
               /\ tx[p] = NoTx
               /\ lockedBy # p
               /\ (log[p][i].migration \in DOMAIN table) <=> log[p][i].recorded
               /\ (Rev(log[p][i].migration) \in schema) <=> log[p][i].recorded
               /\ \A j \in 1..(i - 1) :
                     (log[p][j].act = "exec" /\ log[p][j].direction = Up)
                         => /\ log[p][j].migration \in DOMAIN table
                            /\ Rev(log[p][j].migration) \in schema
               /\ result[p] = "cancelled"

\* C16: no failure met by Apply or Rollback ends in a panic; every one is
\* returned to the caller as an error.
C16_NeverPanics ==
    \A p \in Procs : result[p] # "panic"

\* The errors of the name validation of CreateMetadata.
ValidationErrors == {"ErrInvalidSchemaName", "ErrTableNameRequired", "ErrInvalidTableName"}

\* C14: when CreateMetadata returns a validation error for the schema or the
\* table name, no statement at all has been sent to the database.
C14_ValidatesBeforeAnyStatement ==
    meta.err \in ValidationErrors => meta.sent = <<>>

\* The calls made so far on the transaction.
Calls == hist.calls

\* The tables the statements executed through the transaction created.
ExecutedSamples ==
    {Calls[i].arg : i \in {j \in 1..Len(Calls) : Calls[j].op = "Exec" /\ Calls[j].ret = "nil"}}

\* The transaction was begun, statements were executed, and it was closed,
\* with no other call.
ClosedWithoutCommit ==
    /\ Len(Calls) >= 1
    /\ Calls[Len(Calls)].op = "Close"
    /\ \A i \in 1..(Len(Calls) - 1) : Calls[i].op = "Exec"

\* C17: after Begin, any sequence of Exec calls and Close without Commit,
\* Close returned nil, the underlying transaction is rolled back and the
\* database holds what it held before the Begin.
C17_CloseWithoutCommitRollsBack ==
    ClosedWithoutCommit
        => /\ ret = "nil"
           /\ sqlTx = "rolledback"
           /\ pending = {}
           /\ persisted = hist.before

\* C17 happens: two tables new to the database were created and rolled back.
C17_Witness ==
    /\ ClosedWithoutCommit
    /\ ExecutedSamples = Samples
    /\ hist.before \cap Samples = {}
    /\ persisted \cap Samples = {}

\* C18: on a transaction of one level that was committed, every Close, the
\* first and any repeated one, returns nil, and the committed work stays.
C18_CloseAfterCommitIsIdempotent ==
    \A i \in 1..Len(Calls) :
        (/\ Calls[i].op = "Close"
         /\ \A j \in 1..Len(Calls) : Calls[j].op # "Begin"
         /\ \E j \in 1..(i - 1) : Calls[j].op = "Commit" /\ Calls[j].ret = "nil")
            => /\ Calls[i].ret = "nil"
               /\ persisted = hist.before \cup ExecutedSamples

\* A sub-transaction of the still uncommitted transaction was closed
\* without being committed, at call i.
SubClosedUncommitted(i) ==
    /\ Calls[i].op = "Close"
    /\ Calls[i].level >= 2
    /\ Calls[i].was = txPending
    /\ \A j \in 1..(i - 1) : ~(Calls[j].op = "Commit" /\ Calls[j].level = 1)

EveryLevelCommitted ==
    \A i \in 1..Len(Calls) :
        /\ Calls[i].ret = "nil"
        /\ Calls[i].op = "Close" => Calls[i].was = txCommit

\* The commits of the outermost level among the calls.
OutermostCommits == {i \in 1..Len(Calls) : Calls[i].op = "Commit" /\ Calls[i].level = 1}

\* C20: when every sub-transaction is committed and then closed, the
\* underlying transaction is committed by the Commit of the outermost level
\* and by no other call, exactly once, and from then on the work of every
\* level is persisted; before, none of it is.
C20_NestedCommit ==
    (sqlTx # "none" /\ EveryLevelCommitted)
        => /\ hist.commits = Cardinality(OutermostCommits)
           /\ hist.commits <= 1
           /\ (sqlTx = "committed") <=> (hist.commits = 1)
           /\ IF hist.commits = 1
              THEN persisted = hist.before \cup ExecutedSamples
              ELSE persisted = hist.before /\ sqlTx = "active"

\* C20 happens: work at the outer level and in a sub-transaction, the
\* sub-transaction committed and closed, then the outer Commit.
C20_Witness ==
    /\ EveryLevelCommitted
    /\ \E i, j \in 1..Len(Calls) :
          /\ i < j
          /\ Calls[i].op = "Commit" /\ Calls[i].level = 2
          /\ Calls[j].op = "Commit" /\ Calls[j].level = 1
          /\ \E k \in (i + 1)..(j - 1) : Calls[k].op = "Close" /\ Calls[k].level = 2
          /\ \E k \in 1..(i - 1) : Calls[k].op = "Exec" /\ Calls[k].level = 2
    /\ \E k \in 1..Len(Calls) : Calls[k].op = "Exec" /\ Calls[k].level = 1
    /\ ExecutedSamples = Samples
    /\ hist.before \cap Samples = {}
    /\ Samples \subseteq persisted

\* The section a line opens, as the rule of the directive lines gives it for
\* each line of ParseLines: three dashes at the line start, whitespace, !Up
\* or !Down, anything after.
Marker(line) ==
    IF line.op \in {"Up", "Down"} THEN ToLower(line.op)
    ELSE IF line = [op |-> "text", obj |-> 4] THEN Up
    ELSE None

\* Line i of the text belongs to a section of the direction.
InSection(text, i, direction) ==
    /\ Marker(text[i]) = None
    /\ \E j \in 1..(i - 1) :
          /\ Marker(text[j]) = direction
          /\ \A k \in (j + 1)..(i - 1) : Marker(text[k]) = None

\* The lines of the sections of the direction from line i on, in order, each
\* followed by a newline.
RECURSIVE SectionFrom(_, _, _)
SectionFrom(text, direction, i) ==
    IF i > Len(text) THEN <<>>
    ELSE (IF ~InSection(text, i, direction) THEN <<>>
          ELSE IF text[i] = BlankLine THEN <<NL>>
          ELSE <<text[i], NL>>) \o SectionFrom(text, direction, i + 1)

HasBothSections(text) ==
    /\ \E i \in 1..Len(text) : Marker(text[i]) = Up
    /\ \E i \in 1..Len(text) : Marker(text[i]) = Down

\* C21: for a text with an up and a down section, the text ReadSQL returns
\* for a direction is exactly the lines of the sections of that direction,
\* in order, each followed by a newline, and no line of the other direction;
\* only a line that starts with the marker is a section boundary, every other
\* line is returned as it is.
C21_DirectiveParsing ==
    (input.fn = "ReadSQL" /\ HasBothSections(input.text))
        => output.sql = SectionFrom(input.text, input.direction, 1)

\* C22: ReadSQL returns the malformed-migration error exactly when the text
\* has no directive line at all; a text with a directive line never yields
\* it (a section without body lines yields the empty text and no error).
C22_MalformedIffNoDirective ==
    input.fn = "ReadSQL"
        => (output.err = "ErrUpDownBlocksNotFound"
               <=> \A i \in 1..Len(input.text) : Marker(input.text[i]) = None)

\* C23: AtLatest does not modify the database: no step of the call changes
\* the metadata table's existence, its rows or the schema, whatever the
\* database was when the call began.
C23_AtLatestReadOnly ==
    [][\A p \in Procs : call[p].fn = "AtLatest" => UNCHANGED <<metaExists, table, schema>>]_vars

\* What the rule of AtLatest gives for the recorded migrations and the files.
ExpectedAtLatest(applied, dir) ==
    IF HighestApplied(applied) = HighestApplied(dir) THEN "nil"
    ELSE IF HighestApplied(applied) < HighestApplied(dir) THEN "ErrMigrateRequired"
    ELSE "ErrRollbackRequired"

\* C24: AtLatest returns nil when the latest applied revision equals the
\* highest revision of the files, ErrMigrateRequired when it is below (also
\* when nothing was applied yet), ErrRollbackRequired when it is above.
C24_AtLatestResult ==
    \A p \in Procs :
        (call[p].fn = "AtLatest" /\ pc[p] = "done" /\ result[p] \notin Injected)
            => result[p] = ExpectedAtLatest(DOMAIN start[p].table, start[p].files)

\* C25: a directory that does not exist is an empty list of candidates and
\* no error; any other error of the source, from listing the directory or
\* from reading a candidate's file, ends the run with an error; a candidate
\* whose file could not be read is neither executed nor recorded.
C25_SourceErrors ==
    \A p \in Procs :
        /\ (dirErr = "ErrNotExist" /\ pc[p] = "done")
              => result[p] = "nil" /\ log[p] = <<>> /\ table = NoRows
        /\ (dirErr = "EIO" /\ pc[p] = "done") => result[p] = "direrror"
        /\ \A n \in unreadable :
              /\ n \notin DOMAIN table
              /\ \A e \in Entries(p) : e.migration = n => ~IsExec(e)

\* The statements that define something, among those CreateMetadata sends.
DDL == {"create schema", "create table"}

\* C26: when the schema and the metadata table exist already, CreateMetadata
\* sends no DDL statement, leaves the catalog as it is and returns the name
\* without an error, the same name the call that created them returned.
C26_CreateMetadataIdempotent ==
    [][(meta' # meta /\ meta'.existed)
          => /\ meta'.err = "nil"
             /\ meta'.name # <<>>
             /\ persisted' = persisted
             /\ \A i \in 1..Len(meta'.sent) : meta'.sent[i].stmt \notin DDL
             /\ (meta.err = "nil" /\ meta.schema = meta'.schema /\ meta.table = meta'.table)
                   => meta'.name = meta.name]_vars

\* C26 happens: CreateMetadata was called again for the schema and the table
\* an earlier call created, and returned their name.
C26_Witness ==
    /\ meta.existed
    /\ meta.err = "nil"
    /\ meta.schema = <<"d", "b">>
    /\ meta.name = <<"d", "b", ".", "s", "m">>
    /\ meta.name \in persisted
    /\ Len(meta.sent) = 2

LatestWithRollbacks(p) ==
    /\ call[p].fn = "Apply"
    /\ options[p].Revision = Latest
    /\ options[p].EmbeddedRollbacks

\* C28: with embedded rollbacks and the target latest, the reconciliation
\* resolves the target to the highest revision among the files (0 without
\* files), and when Apply returns success no recorded migration is above
\* that revision and every migration recorded at or below it is still
\* recorded.
C28_LatestFromFiles ==
    [][\A p \in Procs :
          LatestWithRollbacks(p)
              => /\ (pc[p] = "HandleEmbeddedRollbacks" /\ pc'[p] = "Rollback")
                       => m'[p].revision = HighestApplied(files)
                 /\ (pc[p] # "done" /\ pc'[p] = "done" /\ result'[p] = "nil")
                       => /\ m[p].revision = HighestApplied(files)
                          /\ \A n \in DOMAIN table' : Rev(n) <= m[p].revision
                          /\ \A n \in DOMAIN start[p].table :
                                Rev(n) <= m[p].revision => n \in DOMAIN table']_vars

\* C28 happens: the file of revision 3 is gone, and Apply for the latest
\* revision with embedded rollbacks succeeded on a database that had
\* revision 1 recorded, with the target resolved to 2.
C28_Witness ==
    \E p \in Procs :
        /\ LatestWithRollbacks(p)
        /\ pc[p] = "done"
        /\ result[p] = "nil"
        /\ m[p].revision = 2
        /\ DOMAIN start[p].table = {NameOf(1)}
        /\ DOMAIN table = {NameOf(1), NameOf(2)}

\* C29: a recorded migration above the target whose rollback SQL is absent
\* does not make the reconciliation fail: the run does not end with the
\* error of reading its rollback.
C29_MissingRollbackSkipped ==
    [][\A p \in Procs :
          (/\ pc[p] = "Rollback"
           /\ migrations[p] # <<>>
           /\ Head(migrations[p]) \in DOMAIN table
           /\ table[Head(migrations[p])] = NULL
           /\ Rev(Head(migrations[p])) > m[p].revision
           /\ pc'[p] = "done")
              => result'[p] # "scanfail"]_vars

\* C30: whatever the order of the rows, LatestMigration returns the recorded
\* identifier with the highest parsed revision when one parses, revision 0
\* included, and the empty identifier only when none does.
C30_LatestMigrationHighest ==
    input.fn = "LatestMigration"
        => LET parsed == {input.rows[i] : i \in {k \in 1..Len(input.rows) : Revision(input.rows[k]).ok}}
           IN  IF parsed = {} THEN output.latest = <<>>
               ELSE /\ output.latest \in parsed
                    /\ \A n \in parsed : Rev(n) <= Rev(output.latest)

\* C31: a failure of the existence query of IsMigrated is not taken for an
\* answer: the candidate is neither skipped as applied in an up pass nor
\* its down body executed in a down pass.
C31_QueryFailureIsNoAnswer ==
    \A p \in Procs : \A i \in 1..Len(log[p]) :
        (log[p][i].act = "queryfail" /\ log[p][i].src = "file")
            => \A j \in (i + 1)..Len(log[p]) :
                  log[p][j].migration = log[p][i].migration
                      => log[p][j].act \notin {"skip", "exec", "fail"}

\* C32: when the query for the latest applied migration fails while the
\* direction of an explicit revision is resolved, Apply does not return
\* success.
C32_MovingErrorReturned ==
    \A p \in Procs :
        (/\ pc[p] = "done"
         /\ \E i \in 1..Len(log[p]) : log[p][i].act = "queryfail" /\ log[p][i].src = "moving")
            => result[p] # "nil"

\* C33: an error of executing the SQL, of taking the lock or of the commit
\* that ends a run is returned wrapped with the migration and the direction.
C33_ErrorsWrapped ==
    \A p \in Procs :
        (pc[p] = "done" /\ result[p] \in {"sqlfail", "lockfail", "commitfail"})
            => result[p] \in Wrapped

\* The positions of ReadAndApply between taking the lock and the end of the
\* migration's transaction.
UnderLock == {"ShouldRun", "Exec", "Migrated", "UpdateRollback", "Commit"}

\* C34: the lock on the metadata table is held exactly from the lock
\* statement, which follows the begin of the migration's transaction and
\* precedes the applied-check, to the end of that transaction, whichever way
\* it ends; it is held neither between two migrations nor after Apply
\* returned.
C34_LockScopedToMigration ==
    \A p \in Procs :
        /\ lockedBy = p <=> pc[p] \in UnderLock
        /\ pc[p] \in UnderLock \cup {"LockMetadata"} <=> tx[p].open

\* C34 happens: a run has executed and committed one migration, has the
\* next one before it, and the lock is free.
C34_Witness ==
    \E p \in Procs :
        /\ pc[p] = "Apply"
        /\ migrations[p] # <<>>
        /\ \E i \in 1..Len(log[p]) : IsExecuted(log[p][i]) /\ log[p][i].migration \in DOMAIN table
        /\ lockedBy = 0

\* The last calls on the transaction were the operations `ops`, in this
\* order, each returning without an error but possibly the last.
LastCalls(ops) ==
    /\ Len(hist.calls) >= Len(ops)
    /\ \A i \in 1..Len(ops) :
          /\ hist.calls[Len(hist.calls) - Len(ops) + i].op = ops[i]
          /\ i < Len(ops) => hist.calls[Len(hist.calls) - Len(ops) + i].ret = "nil"

\* The number of levels before the call that is `back` calls before the last.
LevelBefore(back) == hist.calls[Len(hist.calls) - back].level

\* C35: a sub-transaction is a counter: after Begin and the Commit of that
\* level, with a Close behind it or without, the transaction has as many
\* levels as before the Begin, and a Commit that follows at the outermost
\* level commits the underlying transaction.
C35_CommitLeavesSubTransaction ==
    (sqlTx # "none" /\ ret # "panic")
        => /\ (LastCalls(<<"Begin", "Commit">>) /\ ret = "nil")
                 => Len(depth) = LevelBefore(1)
           /\ (LastCalls(<<"Begin", "Commit", "Close">>) /\ ret = "nil")
                 => Len(depth) = LevelBefore(2)
           /\ (LastCalls(<<"Begin", "Commit", "Commit">>) /\ LevelBefore(2) = 1)
                 => ret = "nil" /\ sqlTx = "committed"

\* Apply with the explicit revision `target` has returned success.
AppliedTo(p, target) ==
    /\ pc[p] = "done"
    /\ result[p] = "nil"
    /\ call[p].fn = "Apply"
    /\ options[p].Revision = target

\* C36: when Apply with an explicit target returns success, no recorded
\* migration has a revision above the target.
C36_NothingAboveTarget ==
    \A p \in Procs : \A target \in 0..MaxRev :
        AppliedTo(p, target) => \A n \in DOMAIN table : Rev(n) <= target

\* C37: when Apply with an explicit target returns success, every file of
\* the directory with a revision at or below the target is recorded.
C37_EverythingUpToTarget ==
    \A p \in Procs : \A target \in 0..MaxRev :
        AppliedTo(p, target)
            => \A n \in start[p].files : Rev(n) <= target => n \in DOMAIN table

\* C38: when no level of a transaction is closed twice, the underlying
\* transaction is ended once: no Commit and no Close sends a commit or a
\* rollback to a transaction that is committed or rolled back already.
C38_FinalizedOnce ==
    (\A i \in 1..Len(hist.calls) : hist.calls[i].op = "Close" => hist.calls[i].level >= 1)
        => \A i \in 1..Len(hist.calls) :
              hist.calls[i].op \in {"Commit", "Close"} => hist.calls[i].ret # "ErrTxDone"

\* The revision the reconciliation of process p brings the database to.
ReconcileTarget(p) ==
    IF options[p].Revision = Latest THEN HighestApplied(start[p].files)
    ELSE options[p].Revision

\* The runs of stored rollback SQL of migration n, over all processes.
StoredRuns(n) ==
    {pi \in Procs \X (1..(MaxRev * 4)) :
        /\ pi[2] <= Len(log[pi[1]])
        /\ log[pi[1]][pi[2]].src = "stored"
        /\ IsExec(log[pi[1]][pi[2]])
        /\ log[pi[1]][pi[2]].migration = n}

\* C39: when two processes have reconciled the database for the same
\* target with embedded rollbacks, every migration that was recorded above
\* the target is deleted, and its stored rollback SQL was run at most once
\* over both processes.
C39_ReconciledOnce ==
    (\A p \in Procs : pc[p] = "done" /\ options[p].EmbeddedRollbacks)
        => \A n \in DOMAIN start[1].table :
              Rev(n) > ReconcileTarget(1)
                  => n \notin DOMAIN table /\ Cardinality(StoredRuns(n)) <= 1

\* C40: two processes calling Apply at the same time on a database without
\* the metadata table: the CreateMetadata of both succeeds, and once a
\* process is past it the table exists.
C40_BothCreateMetadataSucceed ==
    \A p \in Procs :
        /\ result[p] # "createfail"
        /\ pc[p] \notin {"CreateMetadata", "CreateTable"} => metaExists

====
